---- MODULE Spec2Model ----
(***************************************************************************)
(* HK-47 voice client: the Memory Store Client (MemoryDBClient and the     *)
(* exported helpers) and the live session orchestrator (useLiveSession).   *)
(*                                                                         *)
(* JavaScript runs one event (macrotask) to completion together with the   *)
(* promise continuations (microtasks) it schedules, so every action below  *)
(* is one event handler plus the continuations it triggers.                *)
(***************************************************************************)
EXTENDS Integers, Sequences, FiniteSets, TLC

VARIABLES mem, sess, pure

vars == <<mem, sess, pure>>

(***************************************************************************)
(* Bounds of the model.                                                    *)
(***************************************************************************)
MaxOps == 2
MaxSockets == 2
MaxStamp == 2
MaxSessions == 2
MaxMsgs == 2
MaxText == 2
MaxChunks == 2
MaxClock == 2
MaxAugs == 2
MaxFrames == 2
MaxRecords == 6

Ops == 1..MaxOps
Socks == 1..MaxSockets
Stamps == 1..MaxStamp
Gens == 1..MaxSessions

Max(a, b) == IF a >= b THEN a ELSE b

(***************************************************************************)
(* Strings are sequences of characters.                                    *)
(***************************************************************************)
(* String.prototype.trim() on a sequence of characters.                    *)
RECURSIVE TrimLeft(_)
TrimLeft(txt) ==
    IF txt = <<>> THEN <<>>
    ELSE IF Head(txt) = " " THEN TrimLeft(Tail(txt))
    ELSE txt

RECURSIVE TrimRight(_)
TrimRight(txt) ==
    IF txt = <<>> THEN <<>>
    ELSE IF txt[Len(txt)] = " " THEN TrimRight(SubSeq(txt, 1, Len(txt) - 1))
    ELSE txt

Trim(txt) == TrimRight(TrimLeft(txt))

(* String.prototype.toLowerCase() on the letters the model uses.           *)
LowerChar(ch) ==
    CASE ch = "A" -> "a"
      [] ch = "Q" -> "q"
      [] ch = "T" -> "t"
      [] ch = "U" -> "u"
      [] ch = "#R" -> "#r"
      [] ch = "#S" -> "#s"
      [] ch = "#U" -> "#u"
      [] OTHER -> ch

ToLowerCase(txt) == [i \in 1..Len(txt) |-> LowerChar(txt[i])]

(* String.prototype.includes(q): q occurs in str as a run of characters.   *)
Includes(str, q) ==
    \E i \in 0..(Len(str) - Len(q)) : SubSeq(str, i + 1, i + Len(q)) = q

(* Cyrillic letters are written "#" and the letter's Latin transliteration *)
(* ("#'" is the soft sign); every other character stands for itself.       *)
CyrillicLetters ==
    {"#a", "#g", "#d", "#z", "#k", "#m", "#o", "#p", "#r", "#s", "#t", "#u", "#'",
     "#R", "#S", "#U"}

Ugroza == <<"#u", "#g", "#r", "#o", "#z", "#a">>

Radost == <<"#r", "#a", "#d", "#o", "#s", "#t", "#'">>

Sarkazm == <<"#s", "#a", "#r", "#k", "#a", "#z", "#m">>

(* The number of characters of txt from place i on that lie in class.      *)
RECURSIVE RunLength(_, _, _)
RunLength(txt, i, class) ==
    IF i > Len(txt) \/ txt[i] \notin class THEN 0
    ELSE 1 + RunLength(txt, i + 1, class)

(* str.trim().match(/^[\*\[]*([CYRILLIC]+)[\*\]]*:/): group 1 of the match, *)
(* the empty sequence when there is no match.                              *)
EmotionMatch(str) ==
    LET txt == Trim(str)
        open == RunLength(txt, 1, {"*", "["})
        word == RunLength(txt, open + 1, CyrillicLetters)
        close == RunLength(txt, open + word + 1, {"*", "]"})
        colon == open + word + close + 1
    IN IF word > 0 /\ colon <= Len(txt) /\ txt[colon] = ":"
       THEN SubSeq(txt, open + 1, open + word)
       ELSE <<>>

(* The display state of a matched word (lines 752-756).                    *)
EmotionOf(word) ==
    LET em == ToLowerCase(word)
    IN IF Includes(em, Ugroza) THEN "threat"
       ELSE IF Includes(em, Radost) THEN "happy"
       ELSE IF Includes(em, Sarkazm) THEN "suspicious"
       ELSE "neutral"

(***************************************************************************)
(* ---------------------- Memory Store Client ---------------------------- *)
(* mem is the MemoryDBClient instance `db` together with the sockets it    *)
(* created and the backend's side of each socket.                          *)
(*   ws               id of this.ws, 0 for null                            *)
(*   readyState[s]    NONE (id unused), CONNECTING, OPEN, CLOSING, CLOSED  *)
(*   connectPromise[s] the promise connect() returned when it created s    *)
(*   toServer[s]      messages sent on s the backend has not yet read      *)
(*   toClient[s]      backend messages not yet delivered to s.onmessage    *)
(*   queue            this.queue, as the ids of the operations queued      *)
(*   pendingResolver / pendingRejecter  the operation whose closures are   *)
(*                    installed, 0 for null                                *)
(*   ops[o]           one public call: kind, phase, the socket whose       *)
(*                    connect promise it awaits, the promise's value, what *)
(*                    the exported helper returned and whether it logged   *)
(*                    an error; answeredBy is the request the settling     *)
(*                    response answered (a ghost: the wire carries no id)  *)
(*                    and via the type of that response                    *)
(*                    waited is a ghost: the call found the worker busy    *)
(*   settled          ghost: operations in the order they were settled     *)
(*   authOk[s]        ghost: an auth_ok message was delivered on s         *)
(*   preAuthFault[s]  ghost: an error message, an error event or a close   *)
(*                    event reached s before any auth_ok                   *)
(***************************************************************************)
NoOp == [kind |-> "none", query |-> [text |-> <<>>, tags |-> <<>>], phase |-> "none", sock |-> 0,
         result |-> <<>>, helper |-> <<"pending">>, errLog |-> FALSE,
         answeredBy |-> 0, via |-> "", waited |-> FALSE]

MemInit ==
    [ws |-> 0,
     readyState |-> [s \in Socks |-> "NONE"],
     connectPromise |-> [s \in Socks |-> "none"],
     toServer |-> [s \in Socks |-> <<>>],
     toClient |-> [s \in Socks |-> <<>>],
     isAuthenticated |-> FALSE,
     isProcessing |-> FALSE,
     queue |-> <<>>,
     pendingResolver |-> 0,
     pendingRejecter |-> 0,
     ops |-> [o \in Ops |-> NoOp],
     settled |-> <<>>,
     authOk |-> [s \in Socks |-> FALSE],
     preAuthFault |-> [s \in Socks |-> FALSE],
     ovf |-> FALSE]

(* The backend's record set, as the items of a search_results message.     *)
ServerItems ==
    << [id |-> 1, data |-> <<"a">>, categories |-> << <<"c">> >>, tags |-> << <<"T">> >>,
        created_ms |-> 1],
       [id |-> 2, data |-> <<"b">>, categories |-> <<>>, tags |-> << <<"x", "Q">> >>,
        created_ms |-> 3],
       [id |-> 3, data |-> <<"Q">>, categories |-> << <<"c">> >>, tags |-> <<>>,
        created_ms |-> 2] >>

(* The arguments of searchMemories: a text query and search tags.          *)
NoQuery == [text |-> <<>>, tags |-> <<>>]

Queries ==
    {NoQuery,
     [text |-> <<" ">>, tags |-> <<>>],
     [text |-> <<" ", "Q">>, tags |-> <<>>],
     [text |-> <<>>, tags |-> << <<"T">> >>]}

Unknown == <<"U", "n", "k", "n", "o", "w", "n">>

(* mapItemsToMemory: categories[0] or 'Unknown'.                           *)
MapItemsToMemory(items) ==
    [i \in 1..Len(items) |->
        [id |-> items[i].id,
         content |-> items[i].data,
         category |-> IF Len(items[i].categories) > 0 THEN items[i].categories[1]
                      ELSE Unknown,
         tags |-> items[i].tags,
         created_ms |-> items[i].created_ms]]

(* const q = query.toLowerCase().trim(); const sTags = searchTags.map(t => *)
(* t.toLowerCase()) (lines 271-272).                                       *)
NormalQuery(query) == Trim(ToLowerCase(query.text))

NormalTags(query) == [i \in 1..Len(query.tags) |-> ToLowerCase(query.tags[i])]

(* if (!q && sTags.length === 0) return [] (line 274).                     *)
Vacuous(query) == NormalQuery(query) = <<>> /\ Len(query.tags) = 0

(* The filter predicate of searchMemories (lines 276-282).                 *)
MemoryMatches(m, q, sTags) ==
    \/ q # <<>> /\ Includes(ToLowerCase(m.content), q)
    \/ q # <<>> /\ Includes(ToLowerCase(m.category), q)
    \/ q # <<>> /\ \E i \in 1..Len(m.tags) : Includes(ToLowerCase(m.tags[i]), q)
    \/ \E j \in 1..Len(sTags) : \E i \in 1..Len(m.tags) :
          Includes(ToLowerCase(m.tags[i]), sTags[j])

RECURSIVE SelectSeqBy(_, _, _)
SelectSeqBy(s, q, sTags) ==
    IF s = <<>> THEN <<>>
    ELSE IF MemoryMatches(Head(s), q, sTags)
         THEN <<Head(s)>> \o SelectSeqBy(Tail(s), q, sTags)
         ELSE SelectSeqBy(Tail(s), q, sTags)

(* results.sort((a, b) => b.created_ms - a.created_ms): insertion into a   *)
(* list kept in descending order, stable.                                  *)
RECURSIVE InsertDesc(_, _)
InsertDesc(x, s) ==
    IF s = <<>> THEN <<x>>
    ELSE IF Head(s).created_ms >= x.created_ms
         THEN <<Head(s)>> \o InsertDesc(x, Tail(s))
         ELSE <<x>> \o s

(* A sort that leaves the list as it is.                                   *)
SortNone(s) == s

RECURSIVE SortDesc(_)
SortDesc(s) ==
    IF s = <<>> THEN <<>>
    ELSE InsertDesc(s[Len(s)], SortDesc(SubSeq(s, 1, Len(s) - 1)))

SearchCap == 5

(* searchMemories past the fetch (lines 271-292).                          *)
SearchFilter(all, query) ==
    IF Vacuous(query) THEN <<>>
    ELSE LET sorted == SortDesc(SelectSeqBy(all, NormalQuery(query), NormalTags(query)))
         IN SubSeq(sorted, 1, IF Len(sorted) < SearchCap THEN Len(sorted) ELSE SearchCap)

(***************************************************************************)
(* The exported helpers saveMemory / getAllMemories / searchMemories wrap  *)
(* db.insert / db.fetchAll in try/catch. HelperReturn is what the helper's *)
(* promise resolves with once the operation's promise is settled at time t;*)
(* HelperLogsError is whether its catch block emitted an error log.        *)
(***************************************************************************)
HelperReturnRethrow(kind, query, phase, val, t) ==
    IF phase = "rejected" THEN <<"throws", val>>
    ELSE IF kind = "search" THEN <<"list", SearchFilter(val, query)>>
    ELSE IF kind = "fetchAll" THEN <<"list", val>>
    ELSE <<"id", val>>

HelperReturn(kind, query, phase, val, t) ==
    CASE kind = "insert" ->
            IF phase = "resolved" THEN <<"id", val>> ELSE <<"offline-id-", t>>
      [] kind = "fetchAll" ->
            IF phase = "resolved" THEN <<"list", val>> ELSE <<"list", <<>> >>
      [] OTHER ->
            IF phase = "resolved" THEN <<"list", SearchFilter(val, query)>>
            ELSE <<"list", <<>> >>

HelperLogsError(phase) == phase = "rejected"

(* An operation's promise is settled: resolve/reject of enqueue's promise  *)
(* and, in the same microtask run, the helper's continuation.              *)
Settle(m, o, phase, val, by, t) ==
    LET op == m.ops[o]
    IN [m EXCEPT !.ops[o] = [op EXCEPT !.phase = phase,
                                       !.sock = 0,
                                       !.result = val,
                                       !.answeredBy = by,
                                       !.helper = HelperReturn(op.kind, op.query, phase, val, t),
                                       !.errLog = HelperLogsError(phase)],
                 !.settled = Append(@, o)]

(* sendRaw: this.ws.send(JSON.stringify(data)) on the current socket.      *)
SendRaw(m, msg) ==
    IF m.ws = 0 THEN m
    ELSE [m EXCEPT !.toServer[m.ws] = Append(@, msg)]

(* The operation closure of insert / fetchAll: install the resolver pair,  *)
(* then send the request.                                                  *)
Request(m, o) ==
    IF m.ops[o].kind = "insert"
    THEN [type |-> "insert", req |-> o]
    ELSE [type |-> "search", req |-> o]

Operation(m, o) ==
    SendRaw([m EXCEPT !.pendingResolver = o,
                      !.pendingRejecter = o,
                      !.ops[o].phase = "sent",
                      !.ops[o].sock = m.ws],
            Request(m, o))

(* connect() returning early on any open socket, authenticated or not.     *)
ConnectIsNoopOnOpen(m) == m.ws # 0 /\ m.readyState[m.ws] = "OPEN"

(* connect() that never returns early.                                     *)
ConnectNeverNoop(m) == FALSE

(* connect(): the early return of line 47.                                 *)
ConnectIsNoop(m) ==
    /\ m.ws # 0
    /\ m.readyState[m.ws] = "OPEN"
    /\ m.isAuthenticated

FreeSock(m) ==
    IF \E s \in Socks : m.readyState[s] = "NONE"
    THEN CHOOSE s \in Socks : /\ m.readyState[s] = "NONE"
                              /\ \A r \in Socks : m.readyState[r] = "NONE" => s <= r
    ELSE 0

(* WebSocket.close(): an open or connecting socket starts closing.         *)
CloseCall(st) == IF st \in {"OPEN", "CONNECTING"} THEN "CLOSING" ELSE st

(* connect() past the early return: close and drop the old socket, clear   *)
(* the flag, create a new socket whose connect promise is pending.         *)
ConnectOpen(m) ==
    LET n == FreeSock(m)
        m1 == IF m.ws # 0
              THEN [m EXCEPT !.readyState[m.ws] = CloseCall(@), !.ws = 0]
              ELSE m
        m2 == [m1 EXCEPT !.isAuthenticated = FALSE]
    IN IF n = 0 THEN [m2 EXCEPT !.ovf = TRUE]
       ELSE [m2 EXCEPT !.ws = n,
                       !.readyState[n] = "CONNECTING",
                       !.connectPromise[n] = "pending",
                       !.toServer[n] = <<>>,
                       !.toClient[n] = <<>>,
                       !.authOk[n] = FALSE,
                       !.preAuthFault[n] = FALSE]

(* The task enqueue() builds, up to its first suspension:                  *)
(* await this.connect(); await operation().                                *)
Task(m, o) ==
    IF ConnectIsNoop(m) THEN Operation(m, o)
    ELSE LET m1 == ConnectOpen(m)
         IN [m1 EXCEPT !.ops[o].phase = "connecting", !.ops[o].sock = m1.ws]

(* A worker that leaves the loop when the awaited task has returned.       *)
LoopBreaks(m) == [m EXCEPT !.isProcessing = FALSE]

(* The while loop of processQueue after the awaited task returned: shift   *)
(* the next task, or leave the loop.                                       *)
LoopContinue(m) ==
    IF Len(m.queue) > 0
    THEN Task([m EXCEPT !.queue = Tail(@)], Head(m.queue))
    ELSE [m EXCEPT !.isProcessing = FALSE]

(* processQueue's guard (line 167).                                        *)
ProcessQueueNoGuard(m) == FALSE

ProcessQueueBusy(m) == m.isProcessing

ProcessQueue(m) ==
    IF ProcessQueueBusy(m) THEN m
    ELSE LoopContinue([m EXCEPT !.isProcessing = TRUE])

(* enqueue: push the task and call processQueue.                           *)
Enqueue(m, o, kind, query) ==
    ProcessQueue([m EXCEPT !.queue = Append(@, o),
                           !.ops[o] = [NoOp EXCEPT !.kind = kind,
                                                   !.query = query,
                                                   !.phase = "queued",
                                                   !.waited = m.isProcessing]])

(* The operation awaiting the connect promise of socket s, 0 if none.      *)
Awaiter(m, s) ==
    IF \E o \in Ops : m.ops[o].phase = "connecting" /\ m.ops[o].sock = s
    THEN CHOOSE o \in Ops : m.ops[o].phase = "connecting" /\ m.ops[o].sock = s
    ELSE 0

(* resolve() of the connect promise of s: the awaiting task goes on to its *)
(* operation.                                                              *)
ConnectResolved(m, s) ==
    IF m.connectPromise[s] # "pending" THEN m
    ELSE LET m1 == [m EXCEPT !.connectPromise[s] = "resolved"]
             o == Awaiter(m, s)
         IN IF o = 0 THEN m1 ELSE Operation(m1, o)

(* reject() of the connect promise of s: the awaiting task's catch rejects *)
(* the operation and processQueue goes on.                                 *)
ConnectRejected(m, s, why, t) ==
    IF m.connectPromise[s] # "pending" THEN m
    ELSE LET m1 == [m EXCEPT !.connectPromise[s] = "rejected"]
             o == Awaiter(m, s)
         IN IF o = 0 THEN m1
            ELSE LoopContinue(Settle(m1, o, "rejected", why, 0, t))

(* A resolver that resolves on every response type.                        *)
ResolverOutcomeAnyType(kind, msg) ==
    IF kind = "insert" THEN <<"resolved", msg.req>> ELSE <<"resolved", <<>> >>

(* The closure installed as pendingResolver by insert / fetchAll.          *)
ResolverOutcome(kind, msg) ==
    IF kind = "insert"
    THEN IF msg.type = "inserted" THEN <<"resolved", msg.id>>
         ELSE <<"rejected", "Unexpected response">>
    ELSE IF msg.type = "search_results"
         THEN <<"resolved", MapItemsToMemory(msg.items)>>
         ELSE <<"rejected", "Unexpected response">>

(* Ghost: operation o is being settled by the response msg.                *)
Answered(m, o, msg) == [m EXCEPT !.ops[o].via = msg.type]

(* ws.onmessage of socket s (lines 79-111).                                *)
OnMessage(m, s, msg, t) ==
    IF msg.type = "auth_ok"
    THEN ConnectResolved([m EXCEPT !.isAuthenticated = TRUE], s)
    ELSE IF msg.type = "error" /\ ~m.isAuthenticated
    THEN ConnectRejected(m, s, "Auth Failure", t)
    ELSE IF m.pendingResolver # 0
    THEN LET o == m.pendingResolver
             r == m.pendingRejecter
             out == ResolverOutcome(m.ops[o].kind, msg)
             cleared == [m EXCEPT !.pendingResolver = 0, !.pendingRejecter = 0]
         IN IF msg.type = "error"
            THEN IF r # 0
                 THEN LoopContinue(Settle(Answered(cleared, r, msg), r, "rejected", "error",
                                          msg.req, t))
                 ELSE cleared
            ELSE LoopContinue(Settle(Answered(cleared, o, msg), o, out[1], out[2], msg.req, t))
    ELSE m

(* ws.onerror of socket s (lines 113-123).                                 *)
OnError(m, s, t) ==
    IF ~m.isAuthenticated
    THEN ConnectRejected(m, s, "WebSocket Connection Failed", t)
    ELSE IF m.pendingRejecter # 0
    THEN LoopContinue(Settle([m EXCEPT !.pendingResolver = 0, !.pendingRejecter = 0],
                             m.pendingRejecter, "rejected",
                             "WebSocket Connection Error during request", 0, t))
    ELSE m

(* ws.onclose of socket s (lines 125-141): the handler body runs first,    *)
(* the continuations of the promises it rejected after it.                 *)
OnClose(m, s, t) ==
    LET rejectsConnect == ~m.isAuthenticated
        r == m.pendingRejecter
        body == [m EXCEPT !.isAuthenticated = FALSE,
                          !.pendingResolver = IF r # 0 THEN 0 ELSE @,
                          !.pendingRejecter = 0]
        m1 == IF rejectsConnect
              THEN ConnectRejected(body, s, "HK-DB Connection Closed before Auth", t)
              ELSE body
    IN IF r # 0 /\ m1.ops[r].phase = "sent"
       THEN LoopContinue(Settle(m1, r, "rejected", "HK-DB Connection Closed", 0, t))
       ELSE m1

(* A closed socket the client no longer references fires no more events:   *)
(* its id is free again.                                                   *)
Collect(m) ==
    [m EXCEPT !.readyState = [s \in Socks |->
                  IF m.readyState[s] = "CLOSED" /\ s # m.ws THEN "NONE" ELSE m.readyState[s]],
              !.connectPromise = [s \in Socks |->
                  IF m.readyState[s] = "CLOSED" /\ s # m.ws THEN "none" ELSE m.connectPromise[s]],
              !.toServer = [s \in Socks |->
                  IF m.readyState[s] \in {"CLOSED", "CLOSING"} THEN <<>> ELSE m.toServer[s]],
              !.toClient = [s \in Socks |->
                  IF m.readyState[s] \in {"CLOSED", "CLOSING"} THEN <<>> ELSE m.toClient[s]],
              !.authOk = [s \in Socks |->
                  IF m.readyState[s] = "CLOSED" /\ s # m.ws THEN FALSE ELSE m.authOk[s]],
              !.preAuthFault = [s \in Socks |->
                  IF m.readyState[s] = "CLOSED" /\ s # m.ws THEN FALSE ELSE m.preAuthFault[s]]]

(* Ghost bookkeeping of what reached socket s.                             *)
Faulted(m, s) ==
    IF m.authOk[s] THEN m ELSE [m EXCEPT !.preAuthFault[s] = TRUE]

Received(m, s, msg) ==
    IF msg.type = "auth_ok" THEN [m EXCEPT !.authOk[s] = TRUE]
    ELSE IF msg.type = "error" THEN Faulted(m, s)
    ELSE m

MemStep(m) ==
    /\ ~m.ovf
    /\ mem' = Collect(m)
    /\ UNCHANGED <<sess, pure>>

NextOp == IF \E o \in Ops : mem.ops[o].phase = "none"
          THEN CHOOSE o \in Ops : mem.ops[o].phase = "none"
                                  /\ \A p \in Ops : mem.ops[p].phase = "none" => o <= p
          ELSE 0

(* ---- actions of the memory client ---- *)

(* saveMemory(content, category, tags) -> db.insert                        *)
SaveMemory ==
    /\ NextOp # 0
    /\ MemStep(Enqueue(mem, NextOp, "insert", NoQuery))

(* getAllMemories() -> db.fetchAll                                         *)
GetAllMemories ==
    /\ NextOp # 0
    /\ MemStep(Enqueue(mem, NextOp, "fetchAll", NoQuery))

(* searchMemories(query) -> db.fetchAll, then the client-side filter       *)
SearchMemories ==
    /\ NextOp # 0
    /\ \E q \in Queries : MemStep(Enqueue(mem, NextOp, "search", q))

(* The open event of socket s: ws.onopen sends the auth message.           *)
SockOpen(s) ==
    /\ mem.readyState[s] = "CONNECTING"
    /\ MemStep(SendRaw([mem EXCEPT !.readyState[s] = "OPEN"], [type |-> "auth", req |-> 0]))

(* The backend reads the next message of socket s and answers it: with an *)
(* error, with the response its protocol gives, or, to an insert or a      *)
(* search, with the response of the other request type.                    *)
Inserted(req) == [type |-> "inserted", req |-> req, id |-> 100 + req]

SearchResults(req) == [type |-> "search_results", req |-> req, items |-> ServerItems]

ServerReply(msg, how) ==
    IF how = "error" THEN [type |-> "error", req |-> msg.req]
    ELSE IF msg.type = "auth" THEN [type |-> "auth_ok", req |-> 0]
    ELSE IF (msg.type = "insert") = (how = "ok") THEN Inserted(msg.req)
    ELSE SearchResults(msg.req)

ServerStep(s) ==
    /\ mem.readyState[s] = "OPEN"
    /\ Len(mem.toServer[s]) > 0
    /\ \E how \in {"ok", "error", "other"} :
          /\ how = "other" => Head(mem.toServer[s]).type # "auth"
          /\ MemStep([mem EXCEPT !.toServer[s] = Tail(@),
                                 !.toClient[s] = Append(@, ServerReply(Head(mem.toServer[s]),
                                                                      how))])

(* The message event of socket s.                                          *)
Deliver(s) ==
    /\ mem.readyState[s] = "OPEN"
    /\ Len(mem.toClient[s]) > 0
    /\ \E t \in Stamps :
          MemStep(OnMessage(Received([mem EXCEPT !.toClient[s] = Tail(@)], s,
                                     Head(mem.toClient[s])),
                            s, Head(mem.toClient[s]), t))

(* The connection of socket s fails: the socket is closed, then the error  *)
(* event and the close event are fired in the same task.                   *)
SockFail(s) ==
    /\ mem.readyState[s] \in {"CONNECTING", "OPEN"}
    /\ \E t \in Stamps :
          MemStep(OnClose(OnError(Faulted([mem EXCEPT !.readyState[s] = "CLOSED"], s), s, t),
                          s, t))

(* The close event of socket s: the backend closed an open socket, or the  *)
(* closing handshake that ws.close() started has finished.                 *)
SockClose(s) ==
    /\ mem.readyState[s] \in {"OPEN", "CLOSING"}
    /\ \E t \in Stamps :
          MemStep(OnClose(Faulted([mem EXCEPT !.readyState[s] = "CLOSED"], s), s, t))

MemNext ==
    \/ SaveMemory
    \/ GetAllMemories
    \/ SearchMemories
    \/ \E s \in Socks : SockOpen(s)
    \/ \E s \in Socks : ServerStep(s)
    \/ \E s \in Socks : Deliver(s)
    \/ \E s \in Socks : SockFail(s)
    \/ \E s \in Socks : SockClose(s)


(***************************************************************************)
(* ---------------------- Session Orchestrator --------------------------- *)
(* sess is the state of the useLiveSession hook (its refs and React state) *)
(* together with the environment it talks to.                              *)
(*   status, currentEmotion                                                *)
(*   inputContextRef, outputContextRef, effectInputRef, streamRef,         *)
(*   processorRef, sourceRef, sessionPromiseRef: 0 for null, else the      *)
(*       number of the connect() call that created the object              *)
(*   nextStartTimeRef, audioSourcesRef (a set of chunk ids),               *)
(*   isAnalyzingRef, inputTranscriptRef, outputTranscriptRef (sequences of *)
(*       characters)                                                       *)
(* Environment:                                                            *)
(*   nConnects       connect() calls so far                                *)
(*   chan[g]         remote channel of session g: none, connecting, open,  *)
(*                   closed, failed (the connect promise rejected)         *)
(*   openPhase[g]    where the async onopen callback of g is suspended     *)
(*   clock           currentTime of the output AudioContext in use         *)
(*   openCtx         AudioContexts created and not closed, <<kind, g>>     *)
(*   liveStreams     MediaStreams obtained whose tracks are not stopped    *)
(*   chunks          every buffer source scheduled so far: start, dur, the *)
(*                   clock when it was scheduled (at), the epoch and the   *)
(*                   output context (ctx) it was scheduled in              *)
(*   playing         sources whose ended event has not fired yet           *)
(*   stopped         sources on which stop() was called                    *)
(*   handlers        onmessage invocations suspended in an awaited memory  *)
(*                   call, oldest first (the memory queue is FIFO)         *)
(*   augs            processUserContext calls whose then-handler has not   *)
(*                   run                                                   *)
(*   held[g]         the messages (media from the capture callback,        *)
(*                   silence from the wake-up timer, prompts and tool      *)
(*                   responses) held by then-callbacks on the still        *)
(*                   pending connect promise of session g                  *)
(*   wakeTimers      pending timers of the wake-up silence (line 696)      *)
(* What the last step did (reset when the next step starts):               *)
(*   stepLogs        the entries addLog appended                           *)
(*   stepSends       the messages handed to remote sessions                *)
(*   justDisconnected  disconnect() ran                                    *)
(*   justInterrupted   the interrupted branch of onmessage ran             *)
(*   lastDone        the augmentation completion that ran                  *)
(* Ghosts:                                                                 *)
(*   era             number of connect()/disconnect() calls so far         *)
(*   epoch           number of interruptions handled so far                *)
(*   nMsgs, nAugs    messages delivered, augmentations started             *)
(*   lastEffect[g]   highest arrival number of a message of session g      *)
(*                   whose handler has had an effect                       *)
(*   outOfOrder      a handler had an effect after a later message's did   *)
(*   ovf             a bound of the model was hit in this step             *)
(*   dictated        what the user said since the last start-phrase, up to *)
(*                   the end of the recording                              *)
(*   suppressed      what the current recording has suppressed so far      *)
(*   track           whether the ghosts below are kept                     *)
(*   nHeard          how many characters of user text arrived so far       *)
(*   inputIdx        for each character of the user buffer, its number in  *)
(*                   order of arrival                                      *)
(*   delivered       the characters passed to the engine so far            *)
(*   twice           a character was passed to the engine a second time    *)
(*   dropped         the buffer at the last context trigger that the guard *)
(*                   stopped, and the number of augmentations before it    *)
(*   lastMsg         the message whose server content this step handled    *)
(*   before          the buffers and the guard when that handling began    *)
(*   discarded       the agent transcript this step's interruption dropped *)
(***************************************************************************)
NoDone == [augEra |-> 0, era |-> 0, sentTo |-> 0, guardBefore |-> FALSE,
           guardAfter |-> FALSE]

SessInit ==
    [status |-> "DISCONNECTED",
     currentEmotion |-> "neutral",
     inputContextRef |-> 0,
     outputContextRef |-> 0,
     effectInputRef |-> 0,
     streamRef |-> 0,
     processorRef |-> 0,
     sourceRef |-> 0,
     sessionPromiseRef |-> 0,
     nextStartTimeRef |-> 0,
     audioSourcesRef |-> {},
     isAnalyzingRef |-> FALSE,
     inputTranscriptRef |-> <<>>,
     outputTranscriptRef |-> <<>>,
     dictation |-> FALSE,
     isRecording |-> FALSE,
     recordingBufferRef |-> <<>>,
     dictated |-> <<>>,
     suppressed |-> {},
     track |-> FALSE,
     nHeard |-> 0,
     inputIdx |-> <<>>,
     delivered |-> {},
     twice |-> FALSE,
     dropped |-> [idx |-> <<>>, n |-> 0],
     lastMsg |-> <<>>,
     before |-> <<>>,
     discarded |-> <<>>,
     faultAt |-> 0,
     nConnects |-> 0,
     chan |-> [g \in Gens |-> "none"],
     openPhase |-> [g \in Gens |-> "none"],
     clock |-> 0,
     openCtx |-> {},
     liveStreams |-> {},
     chunks |-> <<>>,
     playing |-> {},
     stopped |-> {},
     handlers |-> <<>>,
     augs |-> {},
     held |-> [g \in Gens |-> <<>>],
     wakeTimers |-> 0,
     stepLogs |-> <<>>,
     stepSends |-> <<>>,
     justDisconnected |-> FALSE,
     justInterrupted |-> FALSE,
     lastDone |-> NoDone,
     era |-> 0,
     epoch |-> 0,
     nMsgs |-> 0,
     nAugs |-> 0,
     lastEffect |-> [g \in Gens |-> 0],
     outOfOrder |-> FALSE,
     ovf |-> FALSE]

(* addLog(message, type, sender)                                           *)
AddLog(s, message, type, sender) ==
    [s EXCEPT !.stepLogs = Append(@, [sender |-> sender, message |-> message,
                                      type |-> type])]

(* Handing a message to the promise of session g: on a resolved promise   *)
(* the then-callback runs in the same step and the message is sent; on a   *)
(* pending promise the callback holding the message waits for the promise; *)
(* on a rejected promise, or a session that has closed, nothing is sent.   *)
ThenSend(s, g, kind, text) ==
    IF s.chan[g] = "open"
    THEN [s EXCEPT !.stepSends = Append(@, [to |-> g, kind |-> kind, text |-> text])]
    ELSE IF s.chan[g] = "connecting"
    THEN IF Len(s.held[g]) >= MaxFrames THEN [s EXCEPT !.ovf = TRUE]
         ELSE [s EXCEPT !.held[g] = Append(@, [kind |-> kind, text |-> text])]
    ELSE s

(* sessionPromiseRef.current?.then(session => session.send...(...)): the   *)
(* message is handed to the promise the ref names now, if any.             *)
SendToSession(s, kind, text) ==
    IF s.sessionPromiseRef = 0 THEN s
    ELSE ThenSend(s, s.sessionPromiseRef, kind, text)

(* if (sessionPromiseRef.current) sessionPromiseRef.current.then(session   *)
(* => session.sendRealtimeInput({media})).catch(...) (lines 683-689,       *)
(* 696-702): with no handle the frame is dropped; on a resolved promise it *)
(* is sent; on a pending promise the callback holding the frame waits for  *)
(* the promise; on a rejected one the catch drops it.                      *)
SendFrame(s, kind) ==
    IF s.sessionPromiseRef = 0 THEN s
    ELSE ThenSend(s, s.sessionPromiseRef, kind, <<>>)

(* The connect promise of session g resolves: the callbacks waiting on it  *)
(* send their frames.                                                      *)
FlushHeld(s, g) ==
    [s EXCEPT !.stepSends = @ \o [i \in 1..Len(s.held[g]) |->
                                     [to |-> g, kind |-> s.held[g][i].kind,
                                      text |-> s.held[g][i].text]],
              !.held[g] = <<>>]

(* Math.max(nextStartTimeRef.current, ctx.currentTime) (line 516)          *)
StartTimeNoClamp(s) == s.nextStartTimeRef

StartTime(s) == Max(s.nextStartTimeRef, s.clock)

(* playAudioChunk (lines 507-537). audio is the duration of the decoded    *)
(* buffer, or -1 for data that fails to decode (caught and dropped); 0 is  *)
(* a message without audio data.                                           *)
PlayAudioChunkFaultResets(s, audio) ==
    IF s.outputContextRef = 0 THEN s
    ELSE IF audio < 0
         THEN [s EXCEPT !.nextStartTimeRef = 0,
                        !.faultAt = IF s.track THEN Len(s.chunks) + 1 ELSE 0]
    ELSE IF Len(s.chunks) >= MaxChunks THEN [s EXCEPT !.ovf = TRUE]
    ELSE LET start == StartTime(s)
             id == Len(s.chunks) + 1
         IN [s EXCEPT !.nextStartTimeRef = start + audio,
                      !.chunks = Append(@, [start |-> start, dur |-> audio,
                                            at |-> s.clock, epoch |-> s.epoch,
                                            ctx |-> s.outputContextRef]),
                      !.playing = @ \cup {id},
                      !.audioSourcesRef = @ \cup {id}]

PlayAudioChunk(s, audio) ==
    IF s.outputContextRef = 0 THEN s
    ELSE IF audio < 0
         THEN [s EXCEPT !.faultAt = IF s.track THEN Len(s.chunks) + 1 ELSE 0]
    ELSE IF Len(s.chunks) >= MaxChunks THEN [s EXCEPT !.ovf = TRUE]
    ELSE LET start == StartTime(s)
             id == Len(s.chunks) + 1
         IN [s EXCEPT !.nextStartTimeRef = start + audio,
                      !.chunks = Append(@, [start |-> start, dur |-> audio,
                                            at |-> s.clock, epoch |-> s.epoch,
                                            ctx |-> s.outputContextRef]),
                      !.playing = @ \cup {id},
                      !.audioSourcesRef = @ \cup {id}]

(* disconnect (lines 539-574)                                              *)
Disconnect(s) ==
    LET s1 == [s EXCEPT !.processorRef = 0,
                        !.sourceRef = 0,
                        !.liveStreams = @ \ {s.streamRef},
                        !.streamRef = 0,
                        !.openCtx = @ \ {<<"in", s.inputContextRef>>,
                                         <<"out", s.outputContextRef>>},
                        !.inputContextRef = 0,
                        !.outputContextRef = 0,
                        !.effectInputRef = 0,
                        !.stopped = @ \cup s.audioSourcesRef,
                        !.audioSourcesRef = {},
                        !.sessionPromiseRef = 0,
                        !.isAnalyzingRef = FALSE,
                        !.status = "DISCONNECTED",
                        !.currentEmotion = "neutral",
                        !.era = @ + 1,
                        !.justDisconnected = TRUE]
    IN AddLog(s1, "Connection terminated.", "info", "HK-47")

(* The interrupted branch of onmessage (lines 737-742).                    *)
ResetCursorKeep(s) == s.nextStartTimeRef

ResetCursor(s) == 0

InterruptedKeep(s) ==
    [s EXCEPT !.stopped = @ \cup s.audioSourcesRef,
              !.audioSourcesRef = {},
              !.nextStartTimeRef = ResetCursor(s),
              !.epoch = @ + 1,
              !.justInterrupted = TRUE]

Interrupted(s) ==
    [s EXCEPT !.stopped = @ \cup s.audioSourcesRef,
              !.audioSourcesRef = {},
              !.nextStartTimeRef = ResetCursor(s),
              !.outputTranscriptRef = <<>>,
              !.epoch = @ + 1,
              !.justInterrupted = TRUE,
              !.discarded = IF s.track THEN s.outputTranscriptRef ELSE <<>>]

(* Extracting the user buffer and starting                                 *)
(* contextManager.processUserContext(userText): the buffer is cleared and  *)
(* logged, the guard set, the thinking filler sent; the call is then in    *)
(* flight (lines 765-778, 805-816).                                        *)
(* inputTranscriptRef.current = '' (lines 766, 806).                       *)
KeepInput(s) == s

ClearInput(s) == [s EXCEPT !.inputTranscriptRef = <<>>, !.inputIdx = <<>>]

(* Ghost: the characters of the buffer go to the engine.                   *)
ToEngine(s) ==
    [s EXCEPT !.delivered = @ \cup {s.inputIdx[i] : i \in 1..Len(s.inputIdx)},
              !.twice = @ \/ \E i \in 1..Len(s.inputIdx) : s.inputIdx[i] \in s.delivered]

StartAugmentation(s, userText, path) ==
    IF s.nAugs >= MaxAugs THEN [s EXCEPT !.ovf = TRUE]
    ELSE LET s1 == AddLog(ClearInput(ToEngine(s)), userText, "info", "MEATBAG")
             s2 == SendToSession([s1 EXCEPT !.isAnalyzingRef = TRUE], "thinking", <<>>)
         IN [s2 EXCEPT !.nAugs = @ + 1,
                       !.augs = @ \cup {[id |-> s.nAugs + 1, text |-> userText,
                                         era |-> s.era, path |-> path,
                                         idx |-> s.inputIdx]}]

(* The context trigger on an audio chunk (line 764).                       *)
ContextTriggerNoGuard(s, audio) ==
    IF audio # 0 /\ Trim(s.inputTranscriptRef) # <<>>
    THEN StartAugmentation(s, s.inputTranscriptRef, "audio")
    ELSE s

ContextTrigger(s, audio) ==
    IF audio # 0 /\ Trim(s.inputTranscriptRef) # <<>> /\ ~s.isAnalyzingRef
    THEN StartAugmentation(s, s.inputTranscriptRef, "audio")
    ELSE IF s.track /\ audio # 0 /\ Trim(s.inputTranscriptRef) # <<>>
    THEN [s EXCEPT !.dropped = [idx |-> s.inputIdx, n |-> s.nAugs]]
    ELSE s

(* The guard of the turnComplete fallback (line 804).                      *)
TurnCompleteAlways(s) == TRUE

TurnCompleteTriggers(s) == Trim(s.inputTranscriptRef) # <<>>

(* The turnComplete branch (lines 802-838).                                *)
TurnComplete(s) ==
    LET s1 == IF TurnCompleteTriggers(s)
              THEN StartAugmentation(s, s.inputTranscriptRef, "turn")
              ELSE s
    IN IF Trim(s1.outputTranscriptRef) # <<>>
       THEN [AddLog(s1, s1.outputTranscriptRef, "info", "HK-47")
                EXCEPT !.outputTranscriptRef = <<>>]
       ELSE s1

(* ---- the recording sub-state ---- *)
(* App.tsx takes isRecording from the hook (src/App.tsx:9); the hook that  *)
(* keeps it is not among the sources, so the sub-state below follows the   *)
(* specification's section on the recording sub-state. The hook under      *)
(* src/hooks has no recording: the sub-state exists only where dictation   *)
(* is set (RecordingInit), and nowhere else is a phrase looked for, a      *)
(* trigger or a tool call suppressed, or a turn appended.                  *)

(* The trigger phrases, in lower case.                                     *)
StartPhrase == <<"s">>

StopPhrase == <<"e">>

(* Where the phrase first occurs in the text, case-insensitively; 0 if it  *)
(* does not.                                                               *)
PhraseAt(txt, phrase) ==
    LET low == ToLowerCase(txt)
        hits == {i \in 1..(Len(txt) - Len(phrase) + 1) :
                    SubSeq(low, i, i + Len(phrase) - 1) = phrase}
    IN IF hits = {} THEN 0 ELSE CHOOSE i \in hits : \A j \in hits : i <= j

BeforePhrase(txt, phrase) == SubSeq(txt, 1, PhraseAt(txt, phrase) - 1)

AfterPhrase(txt, phrase) ==
    SubSeq(txt, PhraseAt(txt, phrase) + Len(phrase), Len(txt))

(* IDLE -> RECORDING: the accumulated user transcript holds a start-phrase. *)
StartsRecording(s) ==
    s.dictation /\ ~s.isRecording /\ PhraseAt(s.inputTranscriptRef, StartPhrase) # 0

(* The text before the phrase is discarded, the text after it seeds the    *)
(* recording buffer, the turn transcript is cleared.                       *)
StartRecording(s) ==
    [s EXCEPT !.isRecording = TRUE,
              !.recordingBufferRef = AfterPhrase(s.inputTranscriptRef, StartPhrase),
              !.inputTranscriptRef = <<>>,
              !.dictated = AfterPhrase(s.inputTranscriptRef, StartPhrase),
              !.suppressed = {}]

(* RECORDING -> IDLE: the transcript of the current turn holds a           *)
(* stop-phrase.                                                            *)
StopsRecording(s) ==
    s.dictation /\ s.isRecording /\ PhraseAt(s.inputTranscriptRef, StopPhrase) # 0

(* The text before the phrase joins the recording buffer, the whole buffer *)
(* goes to the Context Augmentation Engine as one utterance, and both      *)
(* buffers are cleared.                                                    *)
StopRecording(s) ==
    LET utterance == s.recordingBufferRef
                        \o BeforePhrase(s.inputTranscriptRef, StopPhrase)
    IN StartAugmentation([s EXCEPT !.isRecording = FALSE,
                                   !.recordingBufferRef = <<>>,
                                   !.inputTranscriptRef = <<>>],
                         utterance, "recording")

(* While RECORDING the tool calls and the context trigger are suppressed.  *)
NeverSuppressed(s) == FALSE

Suppressed(s) == s.dictation /\ s.isRecording

(* A turn completes during RECORDING: its transcript goes to the recording *)
(* buffer, not to the Context Augmentation Engine.                         *)
AppendTurnDropped(s) == [s EXCEPT !.inputTranscriptRef = <<>>]

AppendTurn(s) ==
    [s EXCEPT !.recordingBufferRef = @ \o s.inputTranscriptRef,
              !.inputTranscriptRef = <<>>]

(* Ghost: the recording suppressed a tool call or a context trigger.       *)
Noted(s, what) == [s EXCEPT !.suppressed = @ \cup {what}]

(* Ghost: the user said delta; while recording it is part of the          *)
(* dictation, and where the ghosts are kept its characters are numbered.   *)
Heard(s, delta) ==
    LET s1 == IF s.isRecording THEN [s EXCEPT !.dictated = @ \o delta] ELSE s
    IN IF s.track
       THEN [s1 EXCEPT !.nHeard = @ + Len(delta),
                       !.inputIdx = @ \o [i \in 1..Len(delta) |-> s.nHeard + i]]
       ELSE s1

(* Ghost: the server content of msg is handled from state s on.            *)
Tracked(s, msg) ==
    IF s.track
    THEN [s EXCEPT !.lastMsg = <<msg>>,
                   !.before = <<[input |-> s.inputTranscriptRef,
                                 output |-> s.outputTranscriptRef,
                                 guard |-> s.isAnalyzingRef,
                                 nAugs |-> s.nAugs]>>]
    ELSE s

(* The emotion annotation of the agent buffer (lines 750-757).             *)
Annotate(s) ==
    LET word == EmotionMatch(s.outputTranscriptRef)
    IN IF word # <<>> THEN [s EXCEPT !.currentEmotion = EmotionOf(word)] ELSE s

(* onmessage past the tool calls (lines 735-838). Where the recording      *)
(* sub-state exists (dictation), a stop-phrase flushes the recording and   *)
(* consumes the event and a start-phrase starts one; the hook under        *)
(* src/hooks takes none of these branches.                                 *)
ServerContent(s, msg) ==
    IF ~msg.hasContent THEN s
    ELSE LET s0 == Tracked(s, msg)
             s1 == IF msg.interrupted THEN Interrupted(s0) ELSE s0
             s2 == Heard([s1 EXCEPT !.inputTranscriptRef = @ \o msg.inputText],
                         msg.inputText)
         IN IF StopsRecording(s2) THEN StopRecording(s2)
            ELSE LET r == IF StartsRecording(s2) THEN StartRecording(s2) ELSE s2
                     s3 == IF msg.outputTranscription
                           THEN Annotate([r EXCEPT !.outputTranscriptRef =
                                                       @ \o msg.outputText])
                           ELSE r
                     s4 == IF ~Suppressed(s3) THEN ContextTrigger(s3, msg.audio)
                           ELSE IF ContextTrigger(s3, msg.audio) # s3
                                THEN Noted(s3, "trigger")
                                ELSE s3
                     s5 == IF msg.audio # 0 THEN PlayAudioChunk(s4, msg.audio)
                           ELSE s4
                     s6 == IF s5.isRecording THEN AppendTurn(s5) ELSE s5
                 IN IF msg.turnComplete THEN TurnComplete(s6) ELSE s5

(* Whether onmessage awaits a memory call for this tool call before it     *)
(* goes on (lines 720, 726).                                               *)
AwaitsMemory(name) == name \in {"commitToMemoryCore", "retrieveFromMemoryCore"}

(* The tool-call loop of onmessage (lines 715-733) from call i on: the     *)
(* handler suspends in the first call it awaits; with none left it goes on *)
(* to the server content.                                                  *)
RECURSIVE ToolCalls(_, _, _)
ToolCalls(s, h, i) ==
    IF i > Len(h.msg.toolCalls) THEN ServerContent(s, h.msg)
    ELSE IF Suppressed(s) THEN ServerContent(Noted(s, "toolCall"), h.msg)
    ELSE LET name == h.msg.toolCalls[i]
             s1 == IF name = "commitToMemoryCore"
                   THEN AddLog(s, "MANUAL ARCHIVE", "success", "HK-47")
                   ELSE s
         IN IF AwaitsMemory(name)
            THEN [s1 EXCEPT !.handlers = Append(@, [h EXCEPT !.i = i])]
            ELSE ToolCalls(s1, h, i + 1)

(* The awaited memory call of a suspended handler returned: the tool       *)
(* response is sent and the loop goes on.                                  *)
ToolReturnedSilent(s, h) == ToolCalls(s, h, h.i + 1)

ToolReturned(s, h) ==
    ToolCalls(SendToSession(s, "toolResponse", <<h.msg.toolCalls[h.i]>>), h, h.i + 1)

(* Ghost: the handler of message n of session g ran from s0 to s1.         *)
Plain(s) == [s EXCEPT !.lastEffect = [g \in Gens |-> 0], !.outOfOrder = FALSE]

Ran(s0, s1, g, n) ==
    IF Plain(s0) # Plain(s1)
    THEN [s1 EXCEPT !.outOfOrder = @ \/ (s1.lastEffect[g] > n),
                    !.lastEffect[g] = Max(@, n)]
    ELSE s1

SessStep(s) ==
    /\ ~s.ovf
    /\ sess' = s
    /\ UNCHANGED <<mem, pure>>

(* The start of a step: what the previous step did is forgotten.           *)
Quiet(s) == [s EXCEPT !.stepLogs = <<>>, !.stepSends = <<>>,
                      !.justDisconnected = FALSE, !.justInterrupted = FALSE,
                      !.lastMsg = <<>>, !.before = <<>>, !.discarded = <<>>,
                      !.lastDone = NoDone]

(* ---- actions of the session ---- *)

(* connect (lines 576-628), with the API key present.                      *)
Connect ==
    /\ sess.status \in {"DISCONNECTED", "ERROR"}
    /\ sess.nConnects < MaxSessions
    /\ LET g == sess.nConnects + 1
           s1 == AddLog([Quiet(sess) EXCEPT !.status = "CONNECTING"],
                        "Initializing audio protocols...", "info", "HK-47")
           s2 == [s1 EXCEPT !.inputContextRef = g,
                            !.outputContextRef = g,
                            !.openCtx = @ \cup {<<"in", g>>, <<"out", g>>},
                            !.clock = 0,
                            !.effectInputRef = g]
           s3 == AddLog(s2, "Contacting HK-47 core...", "info", "HK-47")
       IN SessStep([s3 EXCEPT !.sessionPromiseRef = g,
                              !.chan[g] = "connecting",
                              !.nConnects = g,
                              !.era = @ + 1])

(* connect() without an API key (lines 577-580): a log entry, nothing else. *)
ConnectNoKey ==
    /\ sess.status \in {"DISCONNECTED", "ERROR"}
    /\ SessStep(AddLog(Quiet(sess), "API Key missing.", "error", "HK-47"))

(* connect() whose setup throws (lines 582-627, 850-853): the constructor  *)
(* of the input context, of the output context, or the start of the remote *)
(* connect. What was assigned before the exception stays assigned; the     *)
(* catch block logs and sets ERROR.                                        *)
ConnectThrows ==
    /\ sess.status \in {"DISCONNECTED", "ERROR"}
    /\ sess.nConnects < MaxSessions
    /\ \E at \in {"input", "output", "remote"} :
          LET g == sess.nConnects + 1
              s1 == AddLog([Quiet(sess) EXCEPT !.status = "CONNECTING", !.nConnects = g,
                                               !.era = @ + 1],
                           "Initializing audio protocols...", "info", "HK-47")
              s2 == IF at = "input" THEN s1
                    ELSE [s1 EXCEPT !.inputContextRef = g, !.openCtx = @ \cup {<<"in", g>>}]
              s3 == IF at \in {"input", "output"} THEN s2
                    ELSE AddLog([s2 EXCEPT !.outputContextRef = g,
                                           !.openCtx = @ \cup {<<"out", g>>},
                                           !.clock = 0,
                                           !.effectInputRef = g],
                                "Contacting HK-47 core...", "info", "HK-47")
          IN SessStep([AddLog(s3, "Initialization Failure", "error", "HK-47")
                          EXCEPT !.status = "ERROR"])

(* The promise ai.live.connect returned for session g rejects. connect()   *)
(* neither awaits it nor attaches a rejection handler (line 627), so no    *)
(* code of the hook runs.                                                  *)
ConnectFails(g) ==
    /\ sess.chan[g] = "connecting"
    /\ SessStep([Quiet(sess) EXCEPT !.chan[g] = "failed", !.held[g] = <<>>])

(* onopen of session g up to its first await (lines 640-646).              *)
ChannelOpen(g) ==
    /\ sess.chan[g] = "connecting"
    /\ SessStep(FlushHeld(AddLog([Quiet(sess) EXCEPT !.chan[g] = "open",
                                                     !.status = "CONNECTED",
                                                     !.openPhase[g] = "memDump"],
                                 "Connection established.", "success", "HK-47"), g))

(* getAllMemories() returned to onopen: the microphone is asked for.       *)
MemDumpDone(g) ==
    /\ sess.openPhase[g] = "memDump"
    /\ \E found \in BOOLEAN :
          LET s1 == [Quiet(sess) EXCEPT !.openPhase[g] = "getUserMedia"]
          IN SessStep(IF found THEN AddLog(s1, "MEMORY CHECK", "info", "HK-47") ELSE s1)

(* getUserMedia resolved (lines 655-704).                                  *)
MicGranted(g) ==
    /\ sess.openPhase[g] = "getUserMedia"
    /\ LET s1 == [Quiet(sess) EXCEPT !.openPhase[g] = "done",
                                     !.streamRef = g,
                                     !.liveStreams = @ \cup {g}]
       IN SessStep(IF s1.inputContextRef = 0 THEN s1
                   ELSE [s1 EXCEPT !.sourceRef = g,
                                   !.processorRef = g,
                                   !.wakeTimers = IF s1.sessionPromiseRef # 0
                                                  THEN @ + 1 ELSE @])

(* processor.onaudioprocess (lines 667-690): a captured buffer is encoded  *)
(* and handed to the session. The processor fires while it is connected.   *)
AudioProcess ==
    /\ sess.processorRef # 0
    /\ SessStep(SendFrame(Quiet(sess), "media"))

(* The timer of the wake-up silence fires (lines 696-702).                 *)
WakeUp ==
    /\ sess.wakeTimers > 0
    /\ SessStep(IF sess.sessionPromiseRef = 0
                THEN [Quiet(sess) EXCEPT !.wakeTimers = @ - 1]
                ELSE SendFrame([Quiet(sess) EXCEPT !.wakeTimers = @ - 1], "silence"))

(* A catch block that only logs the microphone failure.                    *)
MicCatchLogOnly(s) == AddLog(s, "Microphone access denied", "error", "HK-47")

(* The catch block of onopen (lines 706-709).                              *)
MicCatch(s) == Disconnect(AddLog(s, "Microphone access denied", "error", "HK-47"))

(* getUserMedia rejected.                                                  *)
MicDenied(g) ==
    /\ sess.openPhase[g] = "getUserMedia"
    /\ SessStep(MicCatch([Quiet(sess) EXCEPT !.openPhase[g] = "done"]))

(* The messages of the remote channel. A message carries tool calls, a     *)
(* server content, or both; the fields of the server content are free.     *)
ToolCallLists == {<<"commitToMemoryCore">>, <<"retrieveFromMemoryCore">>,
                  <<"otherTool", "commitToMemoryCore">>}

NoContent == [hasContent |-> FALSE, interrupted |-> FALSE, inputText |-> <<>>,
              outputText |-> <<>>, audio |-> 0, turnComplete |-> FALSE]

Contents(interrupts, inputs, outputs, audios, turns) ==
    [hasContent : {TRUE}, interrupted : interrupts, inputText : inputs,
     outputText : outputs, audio : audios, turnComplete : turns]

WithCalls(content, calls) ==
    [toolCalls |-> calls, hasContent |-> content.hasContent,
     outputTranscription |-> content.outputText # <<>>,
     interrupted |-> content.interrupted, inputText |-> content.inputText,
     outputText |-> content.outputText, audio |-> content.audio,
     turnComplete |-> content.turnComplete]

(* Conversation traffic: transcripts, a reply chunk, turn completion, and  *)
(* tool calls alone or with a transcript delta.                            *)
ConversationMessages ==
    {WithCalls(c, <<>>) :
        c \in Contents({FALSE}, {<<>>, <<"a">>, <<" ">>}, {<<>>, <<"x">>}, {0, 1}, BOOLEAN)}
    \cup
    {WithCalls(c, calls) :
        c \in {NoContent} \cup Contents({FALSE}, {<<"b">>}, {<<>>}, {0}, {FALSE}),
        calls \in ToolCallLists}

(* Playback traffic: reply chunks of either length, undecodable data, and  *)
(* interruptions, alone or with a chunk.                                   *)
PlaybackMessages ==
    {WithCalls(c, <<>>) :
        c \in Contents(BOOLEAN, {<<>>}, {<<>>}, {0, 1, 2, -1}, {FALSE})}

(* onmessage of session g is called with the next message (line 711).      *)
OnMessageEvent(g, msgs, limit) ==
    /\ sess.chan[g] = "open"
    /\ sess.nMsgs < limit
    /\ \E msg \in msgs :
          /\ Len(sess.inputTranscriptRef) + Len(msg.inputText) <= MaxText
          /\ Len(sess.outputTranscriptRef) + Len(msg.outputText) <= MaxText
          /\ LET n == sess.nMsgs + 1
                 s0 == [Quiet(sess) EXCEPT !.nMsgs = n]
                 h == [g |-> g, n |-> n, msg |-> msg, i |-> 1]
             IN SessStep(Ran(s0, ToolCalls(s0, h, 1), g, n))

Converse(g) == OnMessageEvent(g, ConversationMessages, MaxMsgs)

Playback(g) == OnMessageEvent(g, PlaybackMessages, MaxMsgs + 1)

(* Dictation: a start-phrase, turns of text, a stop-phrase, with reply     *)
(* audio and tool calls in between.                                        *)
RecordingMessages ==
    {WithCalls(c, <<>>) :
        c \in Contents({FALSE}, {<<>>, <<"s", "a">>, <<"b">>, <<"c", "e">>},
                       {<<>>}, {0, 1}, BOOLEAN)}
    \cup
    {WithCalls(NoContent, calls) : calls \in ToolCallLists}

Dictate(g) == OnMessageEvent(g, RecordingMessages, MaxMsgs + 1)

(* Conversation with interruptions, for the augmentation triggers.         *)
TriggerMessages ==
    {WithCalls(c, <<>>) :
        c \in Contents({FALSE}, {<<>>, <<"a">>, <<" ">>}, {<<>>, <<"x">>}, {0, 1}, BOOLEAN)
                 \cup Contents({TRUE}, {<<>>, <<"a">>}, {<<>>, <<"x">>}, {0}, BOOLEAN)}
    \cup
    {WithCalls(c, <<"retrieveFromMemoryCore">>) :
        c \in Contents({FALSE}, {<<"b">>}, {<<>>}, {0, 1}, {FALSE})}

Talk(g) == OnMessageEvent(g, TriggerMessages, MaxMsgs)

(* User speech with reply audio and turn ends, long enough for a trigger   *)
(* to be dropped, the augmentation in flight to return, and a later        *)
(* message to extract the buffer.                                          *)
DropMessages ==
    {WithCalls(c, <<>>) :
        c \in Contents({FALSE}, {<<>>, <<"a">>, <<"b">>}, {<<>>}, {0, 1}, BOOLEAN)}

Speak(g) == OnMessageEvent(g, DropMessages, MaxMsgs + 1)

(* Tool traffic: one call, two memory calls in one message, and memory     *)
(* calls behind a call of another tool, alone or with a transcript delta.  *)
ToolMessages ==
    {WithCalls(c, calls) :
        c \in {NoContent} \cup Contents({FALSE}, {<<"b">>}, {<<>>}, {0}, {FALSE}),
        calls \in {<<"commitToMemoryCore">>,
                   <<"commitToMemoryCore", "retrieveFromMemoryCore">>,
                   <<"otherTool", "retrieveFromMemoryCore", "commitToMemoryCore">>,
                   <<"otherTool">>}}

Invoke(g) == OnMessageEvent(g, ToolMessages, MaxMsgs)

(* Agent speech: deltas with a recognised emotion word (bare, in stars, in *)
(* brackets with a capital), with an unrecognised word, with a word that   *)
(* is not leading, and with no pattern at all, with and without the end of *)
(* the turn or an interruption.                                            *)
AgentDeltas ==
    {Ugroza \o <<":">>,
     <<" ", "*">> \o Radost \o <<"*", ":", "x">>,
     <<"[", "#S">> \o Tail(Sarkazm) \o <<"]", ":">>,
     <<"#o", "#p", ":">>,
     <<"x", " ">> \o Ugroza \o <<":">>,
     Ugroza,
     <<":">>,
     <<"x">>}

(* A message whose outputTranscription object is there with an empty text. *)
EmptyOutput(msg) == [msg EXCEPT !.outputTranscription = TRUE]

EmotionMessages ==
    {WithCalls(c, <<>>) : c \in Contents(BOOLEAN, {<<>>}, AgentDeltas, {0}, BOOLEAN)}
    \cup
    {EmptyOutput(WithCalls(c, <<>>)) : c \in Contents({FALSE}, {<<>>}, {<<>>}, {0}, {FALSE})}

Emote(g) ==
    /\ sess.chan[g] = "open"
    /\ sess.nMsgs < MaxMsgs
    /\ \E msg \in EmotionMessages :
          LET n == sess.nMsgs + 1
              s0 == [Quiet(sess) EXCEPT !.nMsgs = n]
              h == [g |-> g, n |-> n, msg |-> msg, i |-> 1]
          IN SessStep(Ran(s0, ToolCalls(s0, h, 1), g, n))

(* The memory helper awaited by the oldest suspended handler resolves.     *)
ToolReturn ==
    /\ Len(sess.handlers) > 0
    /\ LET h == Head(sess.handlers)
           s0 == [Quiet(sess) EXCEPT !.handlers = Tail(@)]
       IN SessStep(Ran(s0, ToolReturned(s0, h), h.g, h.n))

(* The then-handler of processUserContext (lines 778-794, 816-831): the    *)
(* final prompt goes to whatever session the ref names now, and the guard  *)
(* is cleared.                                                             *)
AugmentationDoneSilent(s, a, injection, log) ==
    LET s1 == IF log THEN AddLog(s, "ANALYSIS UNIT", "info", "HK-47") ELSE s
        s2 == IF injection
              THEN AddLog(s1, "CONTEXT UPDATE INJECTED", "success", "HK-47")
              ELSE s1
    IN [s2 EXCEPT !.isAnalyzingRef = FALSE, !.augs = @ \ {a}]

AugmentationDoneKeepsGuard(s, a, injection, log) ==
    LET s1 == IF log THEN AddLog(s, "ANALYSIS UNIT", "info", "HK-47") ELSE s
        s2 == IF injection
              THEN AddLog(s1, "CONTEXT UPDATE INJECTED", "success", "HK-47")
              ELSE s1
        s3 == SendToSession(s2, IF injection THEN "finalInjected" ELSE "finalNoData", a.text)
    IN [s3 EXCEPT !.augs = @ \ {a}]

AugmentationDone(s, a, injection, log) ==
    LET s1 == IF log THEN AddLog(s, "ANALYSIS UNIT", "info", "HK-47") ELSE s
        s2 == IF injection
              THEN AddLog(s1, "CONTEXT UPDATE INJECTED", "success", "HK-47")
              ELSE s1
        s3 == SendToSession(s2, IF injection THEN "finalInjected" ELSE "finalNoData", a.text)
        s4 == [s3 EXCEPT !.isAnalyzingRef = FALSE]
    IN [s4 EXCEPT !.augs = @ \ {a},
                  !.lastDone = [augEra |-> a.era, era |-> s.era,
                                sentTo |-> IF s4.stepSends = <<>> THEN 0
                                           ELSE s4.stepSends[Len(s4.stepSends)].to,
                                guardBefore |-> s.isAnalyzingRef,
                                guardAfter |-> s4.isAnalyzingRef]]

AugDone ==
    \E a \in sess.augs : \E injection, log \in BOOLEAN :
        /\ injection => log
        /\ SessStep(AugmentationDone(Quiet(sess), a, injection, log))

(* Time passes on the output context's clock.                              *)
Tick ==
    /\ sess.outputContextRef # 0
    /\ sess.clock < MaxClock
    /\ SessStep([Quiet(sess) EXCEPT !.clock = @ + 1])

(* The ended event of source c (line 527): it played to its end, or it was *)
(* stopped.                                                                *)
EndedClears(c) ==
    /\ c \in sess.playing
    /\ \/ c \in sess.stopped
       \/ sess.clock >= sess.chunks[c].start + sess.chunks[c].dur
    /\ SessStep([Quiet(sess) EXCEPT !.playing = @ \ {c},
                                    !.audioSourcesRef = {}])

Ended(c) ==
    /\ c \in sess.playing
    /\ \/ c \in sess.stopped
       \/ sess.clock >= sess.chunks[c].start + sess.chunks[c].dur
    /\ SessStep([Quiet(sess) EXCEPT !.playing = @ \ {c},
                                    !.audioSourcesRef = @ \ {c}])

(* The user presses the disconnect button.                                 *)
UserDisconnect ==
    /\ sess.status = "CONNECTED"
    /\ SessStep(Disconnect(Quiet(sess)))

(* onclose of session g (lines 840-843).                                   *)
ChannelClose(g) ==
    /\ sess.chan[g] \in {"connecting", "open"}
    /\ SessStep(Disconnect(AddLog([Quiet(sess) EXCEPT !.chan[g] = "closed"],
                                  "Session closed remotely.", "error", "HK-47")))

(* onerror of session g (lines 844-846).                                   *)
ChannelError(g) ==
    /\ sess.chan[g] \in {"connecting", "open"}
    /\ SessStep(AddLog(Quiet(sess), "Protocol Error", "error", "HK-47"))

(* The conversation: remote messages, memory and classifier completions,   *)
(* disconnects and reconnects.                                             *)
SessNext ==
    \/ Connect
    \/ \E g \in Gens : ChannelOpen(g)
    \/ \E g \in Gens : Converse(g)
    \/ ToolReturn
    \/ AugDone
    \/ UserDisconnect
    \/ \E g \in Gens : ChannelClose(g)

(* Playback: reply chunks and interruptions against the output clock.      *)
PlaybackNext ==
    \/ Connect
    \/ \E g \in Gens : ChannelOpen(g)
    \/ \E g \in Gens : Playback(g)
    \/ Tick
    \/ \E c \in 1..MaxChunks : Ended(c)
    \/ UserDisconnect
    \/ \E g \in Gens : ChannelClose(g)

(* Tool calls: messages with function calls, the memory helpers'           *)
(* returns, disconnects and reconnects.                                    *)
ToolNext ==
    \/ Connect
    \/ \E g \in Gens : ChannelOpen(g)
    \/ \E g \in Gens : Invoke(g)
    \/ ToolReturn
    \/ UserDisconnect
    \/ \E g \in Gens : ChannelClose(g)

(* The agent's speech and its annotation.                                  *)
EmotionNext ==
    \/ Connect
    \/ \E g \in Gens : ChannelOpen(g)
    \/ \E g \in Gens : Emote(g)
    \/ UserDisconnect

(* The augmentation triggers: messages, classifier and memory             *)
(* completions, disconnects and reconnects.                                *)
TriggerNext ==
    \/ Connect
    \/ \E g \in Gens : ChannelOpen(g)
    \/ \E g \in Gens : Talk(g)
    \/ ToolReturn
    \/ AugDone
    \/ UserDisconnect

(* Triggers that meet the guard, and what follows them.                    *)
DropNext ==
    \/ Connect
    \/ \E g \in Gens : ChannelOpen(g)
    \/ \E g \in Gens : Speak(g)
    \/ AugDone
    \/ UserDisconnect

(* Dictation to the recording sub-state within one session.               *)
RecordingNext ==
    \/ Connect
    \/ \E g \in Gens : ChannelOpen(g)
    \/ \E g \in Gens : Dictate(g)
    \/ ToolReturn
    \/ AugDone

(* The session's lifecycle: the open callback and the microphone.          *)
LifecycleNext ==
    \/ Connect
    \/ ConnectNoKey
    \/ ConnectThrows
    \/ \E g \in Gens : ConnectFails(g)
    \/ \E g \in Gens : ChannelOpen(g)
    \/ \E g \in Gens : MemDumpDone(g)
    \/ \E g \in Gens : MicGranted(g)
    \/ \E g \in Gens : MicDenied(g)
    \/ AudioProcess
    \/ WakeUp
    \/ UserDisconnect
    \/ \E g \in Gens : ChannelClose(g)
    \/ \E g \in Gens : ChannelError(g)

(* No pure function is under test.                                         *)
NoPure == [fn |-> "none"]

Init == mem = MemInit /\ sess = SessInit /\ pure = NoPure

MemSpec == Init /\ [][MemNext]_vars

Spec == Init /\ [][SessNext]_vars

PlaybackSpec == Init /\ [][PlaybackNext]_vars

LifecycleSpec == Init /\ [][LifecycleNext]_vars

(* The hook with the recording sub-state.                                  *)
RecordingInit ==
    mem = MemInit /\ sess = [SessInit EXCEPT !.dictation = TRUE] /\ pure = NoPure

RecordingSpec == RecordingInit /\ [][RecordingNext]_vars

ToolSpec == Init /\ [][ToolNext]_vars

(* The same program with the ghosts of the triggers kept.                  *)
TriggerInit ==
    mem = MemInit /\ sess = [SessInit EXCEPT !.track = TRUE] /\ pure = NoPure

TriggerSpec == TriggerInit /\ [][TriggerNext]_vars

DropSpec == TriggerInit /\ [][DropNext]_vars

EmotionSpec == TriggerInit /\ [][EmotionNext]_vars

(* Playback with the ghost of the dropped chunk kept.                      *)
FaultSpec == TriggerInit /\ [][PlaybackNext]_vars

(***************************************************************************)
(* ---------------------- Pure functions --------------------------------- *)
(* pure holds the arguments a pure function is called with and, once it    *)
(* was applied, its result.                                                *)
(***************************************************************************)

(* The record sets searchMemories filters: records that match a text query *)
(* by content, by category or by a tag, that match a search tag, or that   *)
(* match nothing, created in ascending order, in descending order, or with *)
(* equal creation times.                                                   *)
RecordShapes ==
    {[content |-> <<"x", "Q">>, category |-> <<"c">>, tags |-> <<>>],
     [content |-> <<"a">>, category |-> <<"Q">>, tags |-> << <<"T">> >>],
     [content |-> <<"a">>, category |-> <<"c">>, tags |-> << <<"b">>, <<"T", "q">> >>],
     [content |-> <<"a">>, category |-> <<"c">>, tags |-> << <<"b">> >>]}

CreatedMs(order, i, n) ==
    CASE order = "asc" -> i
      [] order = "desc" -> n + 1 - i
      [] OTHER -> 1 + (i % 2)

RecordSet(shapes, order) ==
    [i \in 1..Len(shapes) |->
        [id |-> i,
         content |-> shapes[i].content,
         category |-> shapes[i].category,
         tags |-> shapes[i].tags,
         created_ms |-> CreatedMs(order, i, Len(shapes))]]

SearchQueries ==
    {[text |-> <<" ", "Q">>, tags |-> <<>>],
     [text |-> <<>>, tags |-> << <<"T">> >>],
     [text |-> <<"q">>, tags |-> << <<"t">> >>],
     [text |-> <<" ">>, tags |-> <<>>]}

SearchInit ==
    /\ mem = MemInit
    /\ sess = SessInit
    /\ \E n \in 0..MaxRecords : \E shapes \in [1..n -> RecordShapes] :
       \E order \in {"asc", "desc", "ties"} : \E query \in SearchQueries :
          pure = [fn |-> "search", all |-> RecordSet(shapes, order), query |-> query,
                  out |-> <<"none">>]

(* searchMemories(query, searchTags) once fetchAll returned pure.all.      *)
ApplySearch ==
    /\ pure.fn = "search"
    /\ pure.out = <<"none">>
    /\ pure' = [pure EXCEPT !.out = <<"list", SearchFilter(pure.all, pure.query)>>]
    /\ UNCHANGED <<mem, sess>>

SearchSpec == SearchInit /\ [][ApplySearch]_vars

(***************************************************************************)
(* Double-precision arithmetic.  The sample rates and lengths of           *)
(* downsampleBuffer are JavaScript numbers, and its divisions and products *)
(* round to 53 significant bits.  A natural number is a sequence of limbs  *)
(* of 15 bits, least significant first and without zero limbs at the end;  *)
(* a positive double is [m |-> 53 bits, e |-> exponent], the number        *)
(* m * 2^e.                                                                *)
(***************************************************************************)
Mantissa == 53

LimbBits == 15

Base == 2 ^ LimbBits

RECURSIVE Norm(_)
Norm(a) ==
    IF a # <<>> /\ a[Len(a)] = 0 THEN Norm(SubSeq(a, 1, Len(a) - 1)) ELSE a

RECURSIVE FromInt(_)
FromInt(n) == IF n = 0 THEN <<>> ELSE <<n % Base>> \o FromInt(n \div Base)

RECURSIVE ToInt(_)
ToInt(a) == IF a = <<>> THEN 0 ELSE a[1] + Base * ToInt(Tail(a))

Limb(a, i) == IF i \in 1..Len(a) THEN a[i] ELSE 0

(* a < b *)
Less(a, b) ==
    \/ Len(a) < Len(b)
    \/ /\ Len(a) = Len(b)
       /\ LET d == {i \in 1..Len(a) : a[i] # b[i]}
          IN d # {} /\ LET i == CHOOSE i \in d : \A j \in d : i >= j
                       IN a[i] < b[i]

(* a + b *)
RECURSIVE PlusFrom(_, _, _, _)
PlusFrom(a, b, i, carry) ==
    IF i > Len(a) /\ i > Len(b)
    THEN FromInt(carry)
    ELSE LET d == Limb(a, i) + Limb(b, i) + carry
         IN <<d % Base>> \o PlusFrom(a, b, i + 1, d \div Base)

Plus(a, b) == PlusFrom(a, b, 1, 0)

(* a - b, for a >= b *)
RECURSIVE MinusFrom(_, _, _, _)
MinusFrom(a, b, i, borrow) ==
    IF i > Len(a)
    THEN <<>>
    ELSE LET d == Limb(a, i) - Limb(b, i) - borrow
         IN <<(d + Base) % Base>> \o MinusFrom(a, b, i + 1, IF d < 0 THEN 1 ELSE 0)

Minus(a, b) == Norm(MinusFrom(a, b, 1, 0))

(* a * n for a natural number n below the base *)
RECURSIVE TimesFrom(_, _, _, _)
TimesFrom(a, n, i, carry) ==
    IF i > Len(a)
    THEN FromInt(carry)
    ELSE LET d == a[i] * n + carry
         IN <<d % Base>> \o TimesFrom(a, n, i + 1, d \div Base)

Times(a, n) == IF n = 0 THEN <<>> ELSE TimesFrom(a, n, 1, 0)

(* The number of significant bits of a.                                    *)
BitLen(a) ==
    IF a = <<>> THEN 0
    ELSE LimbBits * (Len(a) - 1)
            + (CHOOSE k \in 1..LimbBits :
                  2 ^ (k - 1) <= a[Len(a)] /\ a[Len(a)] < 2 ^ k)

(* Bit i of a, counted from the least significant one, from 0.             *)
Bit(a, i) == (Limb(a, (i \div LimbBits) + 1) \div (2 ^ (i % LimbBits))) % 2

(* a * 2^n *)
ShiftLeft(a, n) ==
    IF a = <<>> THEN <<>>
    ELSE [i \in 1..(n \div LimbBits) |-> 0] \o Times(a, 2 ^ (n % LimbBits))

(* a \div 2^n *)
ShiftRight(a, n) ==
    LET q == n \div LimbBits
        r == n % LimbBits
    IN Norm([i \in 1..(Len(a) - q) |->
                (a[i + q] \div (2 ^ r))
                   + (Limb(a, i + q + 1) % (2 ^ r)) * (2 ^ (LimbBits - r))])

(* Quotient and remainder of a by b, one bit of a at a time from the most  *)
(* significant one; the upper half of the bits is evaluated before the     *)
(* lower half starts.                                                      *)
DivStep(a, b, st, i) ==
    LET r1 == Plus(Times(st.r, 2), FromInt(Bit(a, i)))
    IN IF Less(r1, b)
       THEN [r |-> r1, q |-> Times(st.q, 2)]
       ELSE [r |-> Minus(r1, b), q |-> Plus(Times(st.q, 2), <<1>>)]

RECURSIVE DivRun(_, _, _, _, _)
DivRun(a, b, st, hi, lo) ==
    IF hi < lo THEN st
    ELSE IF hi = lo THEN DivStep(a, b, st, hi)
    ELSE LET mid == (hi + lo) \div 2
             upper == DivRun(a, b, st, hi, mid + 1)
         IN IF Len(upper.q) >= 0 THEN DivRun(a, b, upper, mid, lo) ELSE upper

DivMod(a, b) == DivRun(a, b, [r |-> <<>>, q |-> <<>>], BitLen(a) - 1, 0)

(* The double nearest to n * 2^e, ties to even; sticky says that the exact *)
(* number lies a little above n * 2^e.                                     *)
RoundNearestEven(n, sticky, e) ==
    IF BitLen(n) <= Mantissa
    THEN [m |-> ShiftLeft(n, Mantissa - BitLen(n)), e |-> e - (Mantissa - BitLen(n))]
    ELSE LET drop == BitLen(n) - Mantissa
             kept == ShiftRight(n, drop)
             rest == sticky \/ \E i \in 0..(drop - 2) : Bit(n, i) = 1
             up == Bit(n, drop - 1) = 1 /\ (rest \/ Bit(kept, 0) = 1)
             m == IF up THEN Plus(kept, <<1>>) ELSE kept
         IN IF BitLen(m) > Mantissa
            THEN [m |-> ShiftRight(m, 1), e |-> e + drop + 1]
            ELSE [m |-> m, e |-> e + drop]

(* The double of a positive integer.                                       *)
DoubleOfInt(n) == RoundNearestEven(FromInt(n), FALSE, 0)

(* x / y in double precision.                                              *)
DoubleDiv(x, y) ==
    LET d == DivMod(ShiftLeft(x.m, Mantissa + 1), y.m)
    IN RoundNearestEven(d.q, d.r # <<>>, x.e - y.e - (Mantissa + 1))

(* n * x in double precision, for an integer n >= 1.                       *)
DoubleMulInt(n, x) == RoundNearestEven(Times(x.m, n), FALSE, x.e)

(* Math.round(x): the integer nearest to x, halves upwards.                *)
MathRound(x) ==
    IF x.e >= 0 THEN ToInt(ShiftLeft(x.m, x.e))
    ELSE IF -x.e > Mantissa THEN 0
    ELSE ToInt(ShiftRight(x.m, -x.e)) + Bit(x.m, -x.e - 1)

(***************************************************************************)
(* downsampleBuffer(buffer, inputRate, outputRate).  A sample is an        *)
(* integer; a sample of the result is the pair of the sum and the count it *)
(* is the quotient of.                                                     *)
(***************************************************************************)
RECURSIVE Accum(_, _, _)
Accum(buffer, from, to) ==
    IF from >= to \/ from >= Len(buffer) THEN [accum |-> 0, count |-> 0]
    ELSE LET rest == Accum(buffer, from + 1, to)
         IN [accum |-> buffer[from + 1] + rest.accum, count |-> rest.count + 1]

(* The loop (lines 70-81).                                                 *)
RECURSIVE Fill(_, _, _, _, _, _)
Fill(buffer, sampleRatio, newLength, offsetResult, offsetBuffer, result) ==
    IF offsetResult >= newLength THEN result
    ELSE LET nextOffsetBuffer == MathRound(DoubleMulInt(offsetResult + 1, sampleRatio))
             sum == Accum(buffer, offsetBuffer, nextOffsetBuffer)
             sample == IF sum.count > 0 THEN sum ELSE [accum |-> 0, count |-> 1]
         IN Fill(buffer, sampleRatio, newLength, offsetResult + 1,
                 nextOffsetBuffer, Append(result, sample))

(* The length of the result (lines 64-65).                                 *)
NewLength(length, inputRate, outputRate) ==
    IF length = 0 THEN 0
    ELSE MathRound(DoubleDiv(DoubleOfInt(length),
                             DoubleDiv(DoubleOfInt(inputRate), DoubleOfInt(outputRate))))

DownsampleBuffer(buffer, inputRate, outputRate) ==
    IF outputRate = inputRate THEN [kind |-> "returns", same |-> TRUE, value |-> buffer]
    ELSE IF outputRate > inputRate
    THEN [kind |-> "throws", error |-> "Upsampling not supported"]
    ELSE LET sampleRatio == DoubleDiv(DoubleOfInt(inputRate), DoubleOfInt(outputRate))
             newLength == NewLength(Len(buffer), inputRate, outputRate)
         IN [kind |-> "returns", same |-> FALSE,
             value |-> Fill(buffer, sampleRatio, newLength, 0, 0, <<>>)]

(* The buffers and rates the function is applied to.                       *)
MaxLen == 9

Rates == {1, 2, 3, 7, 18}

Ramp(length) == [i \in 1..length |-> i]

DownsampleInit ==
    /\ mem = MemInit
    /\ sess = SessInit
    /\ \E length \in 0..MaxLen : \E inputRate, outputRate \in Rates :
          pure = [fn |-> "downsample", buffer |-> Ramp(length),
                  inputRate |-> inputRate, outputRate |-> outputRate,
                  out |-> [kind |-> "none"]]

ApplyDownsample ==
    /\ pure.fn = "downsample"
    /\ pure.out.kind = "none"
    /\ pure' = [pure EXCEPT !.out = DownsampleBuffer(pure.buffer, pure.inputRate,
                                                     pure.outputRate)]
    /\ UNCHANGED <<mem, sess>>

DownsampleSpec == DownsampleInit /\ [][ApplyDownsample]_vars

(***************************************************************************)
(* float32ToPcmBlob and pcmToAudioBuffer on one sample.  A float sample is *)
(* its numerator over SampleDen (every such fraction is a float32, and the *)
(* products and quotients below are exact in double precision); a decoded  *)
(* sample is its numerator over DecodeScale.                               *)
(***************************************************************************)
SampleDen == 2 ^ 16

NegScale == 32768

PosScale == 32767

DecodeScale == 32768

(* How far beyond [-1, 1] the samples go, in units of 1 / SampleDen.       *)
MaxOver == 2

(* Math.max(-1, Math.min(1, data[i])) (line 94).                           *)
Clamp(n) == Max(-SampleDen, IF n < SampleDen THEN n ELSE SampleDen)

(* The integer part of p / q, towards zero, for q > 0.                     *)
Trunc(p, q) == IF p >= 0 \/ p % q = 0 THEN p \div q ELSE (p \div q) + 1

(* Storing a number into an Int16Array: the integer part, modulo 2^16.     *)
ToInt16(p, q) == ((Trunc(p, q) + 32768) % 65536) - 32768

(* int16[i] = s < 0 ? s * 0x8000 : s * 0x7FFF (lines 92-97).               *)
Float32ToPcm(n) ==
    LET s == Clamp(n)
    IN ToInt16(IF s < 0 THEN s * NegScale ELSE s * PosScale, SampleDen)

(* new Uint8Array(int16.buffer): the two bytes, low byte first (line 100). *)
BytesOfInt16(v) == LET u == (v + 65536) % 65536 IN <<u % 256, u \div 256>>

(* new Int16Array(data.buffer) (line 39).                                  *)
Int16OfBytes(b) ==
    LET u == b[1] + 256 * b[2] IN IF u >= 32768 THEN u - 65536 ELSE u

(* dataInt16[i] / 32768.0 (line 47): the numerator over DecodeScale.       *)
PcmToAudio(b) == Int16OfBytes(b)

PcmInit ==
    /\ mem = MemInit
    /\ sess = SessInit
    /\ \E n \in (-SampleDen - MaxOver)..(SampleDen + MaxOver) :
          pure = [fn |-> "pcm", sample |-> n, out |-> <<"none">>]

ApplyPcm ==
    /\ pure.fn = "pcm"
    /\ pure.out = <<"none">>
    /\ LET int16 == Float32ToPcm(pure.sample)
       IN pure' = [pure EXCEPT !.out = <<"decoded", int16,
                                         PcmToAudio(BytesOfInt16(int16))>>]
    /\ UNCHANGED <<mem, sess>>

PcmSpec == PcmInit /\ [][ApplyPcm]_vars

(***************************************************************************)
(* ContextManager.processUserContext (src/utils/memory-db.ts).  A call is  *)
(* modelled by its outcome: a record with throws set, or with a value.     *)
(***************************************************************************)

(* What the classifier call gives: the call fails, the response has no     *)
(* text, the text is not JSON, the JSON is null, or it is an object with   *)
(* an intent and with saveData / searchData absent, well-formed, or        *)
(* without a tags array.                                                   *)
Intents == {"SAVE", "RETRIEVE", "NONE", "OTHER"}

DataShapes == {"absent", "ok", "noTags"}

ClassifierReplies ==
    {[kind |-> k, intent |-> "NONE", saveData |-> "absent", searchData |-> "absent"] :
        k \in {"failure", "empty", "malformed", "null"}}
    \cup {[kind |-> "json", intent |-> i, saveData |-> sv, searchData |-> sr] :
            i \in Intents, sv \in DataShapes, sr \in DataShapes}

(* What the memory helper does when called: it returns (a search with or   *)
(* without records), or it throws.                                         *)
MemoryOutcomes == {"ok", "empty", "found", "throws"}

Returns(v) == [throws |-> FALSE, value |-> v]

Throws == [throws |-> TRUE, value |-> <<>>]

(* analyzeText (lines 203-238): generateContent, then JSON.parse.          *)
AnalyzeText(reply) ==
    CASE reply.kind = "failure" -> Throws
      [] reply.kind = "empty" -> Returns([intent |-> "NONE", saveData |-> "absent",
                                          searchData |-> "absent", isNull |-> FALSE])
      [] reply.kind = "malformed" -> Throws
      [] reply.kind = "null" -> Returns([intent |-> "NONE", saveData |-> "absent",
                                         searchData |-> "absent", isNull |-> TRUE])
      [] OTHER -> Returns([intent |-> reply.intent, saveData |-> reply.saveData,
                           searchData |-> reply.searchData, isNull |-> FALSE])

(* handleSave (lines 240-247)                                              *)
HandleSave(outcome) ==
    IF outcome = "throws" THEN Returns("saveError") ELSE Returns("saved")

(* handleRetrieve (lines 249-259)                                          *)
HandleRetrieve(outcome) ==
    CASE outcome = "throws" -> Returns("readError")
      [] outcome = "found" -> Returns("data")
      [] OTHER -> Returns("notFound")

Result(injection, log, classified, memOp) ==
    [settled |-> "resolved", injection |-> injection, log |-> log,
     classified |-> classified, memOp |-> memOp]

(* The try block of processUserContext (lines 176-195).                    *)
TryBlock(reply, outcome) ==
    LET analysis == AnalyzeText(reply)
    IN IF analysis.throws THEN Throws
       ELSE LET a == analysis.value
            IN IF a.isNull THEN Throws
               ELSE IF a.intent = "SAVE" /\ a.saveData # "absent"
               THEN IF a.saveData = "noTags" THEN Throws
                    ELSE Returns(Result(HandleSave(outcome).value, "intentSave",
                                        TRUE, "insert"))
               ELSE IF a.intent = "RETRIEVE" /\ a.searchData # "absent"
               THEN IF a.searchData = "noTags" THEN Throws
                    ELSE Returns(Result(HandleRetrieve(outcome).value, "intentRetrieve",
                                        TRUE, "search"))
               ELSE Returns(Result("null",
                                   IF a.intent = "NONE" THEN "null" ELSE "intent",
                                   TRUE, "none"))

(* processUserContext without its catch clause.                            *)
ProcessUserContextNoCatch(text, reply, outcome) ==
    IF Trim(text) = <<>> THEN Result("null", "null", FALSE, "none")
    ELSE LET body == TryBlock(reply, outcome)
         IN IF body.throws
            THEN [Result("null", "null", TRUE, "none") EXCEPT !.settled = "rejected"]
            ELSE body.value

(* processUserContext (lines 173-201)                                      *)
ProcessUserContext(text, reply, outcome) ==
    IF Trim(text) = <<>> THEN Result("null", "null", FALSE, "none")
    ELSE LET body == TryBlock(reply, outcome)
         IN IF body.throws
            THEN Result("null", "error", TRUE, "none")
            ELSE body.value

ContextTexts == {<<>>, <<" ">>, <<"a">>, <<" ", "a">>}

ContextInit ==
    /\ mem = MemInit
    /\ sess = SessInit
    /\ \E text \in ContextTexts, reply \in ClassifierReplies, outcome \in MemoryOutcomes :
          pure = [fn |-> "context", text |-> text, reply |-> reply,
                  outcome |-> outcome, out |-> <<>>]

ApplyContext ==
    /\ pure.fn = "context"
    /\ pure.out = <<>>
    /\ pure' = [pure EXCEPT !.out = <<ProcessUserContext(pure.text, pure.reply,
                                                         pure.outcome)>>]
    /\ UNCHANGED <<mem, sess>>

ContextSpec == ContextInit /\ [][ApplyContext]_vars

(* The lifecycle with the one continuation the hook itself has pending:    *)
(* onopen goes on once getAllMemories has returned, which it does whenever *)
(* the memory backend answers or fails. What the remote channel, the user  *)
(* and the microphone do is not scheduled by the code and carries no       *)
(* fairness.                                                               *)
LifecycleFairSpec ==
    LifecycleSpec /\ WF_vars(\E g \in Gens : MemDumpDone(g))

(* The lifecycle over a memory backend that may stall: getAllMemories has  *)
(* no timeout (fetchAll, connect and the queue wait for the socket), so    *)
(* its return carries no fairness. The timer the hook sets itself          *)
(* (setTimeout, lines 696-702) does fire.                                  *)
StallFairSpec ==
    LifecycleSpec /\ WF_vars(WakeUp)

(***************************************************************************)
(* Claims about the Memory Store Client, checked under MemSpec.            *)
(***************************************************************************)
SentOps == {o \in Ops : mem.ops[o].phase = "sent"}

InFlight(s) == mem.toServer[s] \o mem.toClient[s]

IsSorted(seq) == \A i, j \in 1..Len(seq) : i < j => seq[i] < seq[j]

(* C1: FIFO correlation. A response that settles an operation is the       *)
(* answer to that operation's own request; while an operation's request is *)
(* out, the only operation traffic in flight on its socket is its own, so  *)
(* the first response received after the request settles it; operations    *)
(* are settled in the order they were issued.                              *)
C1_FifoCorrelation ==
    /\ \A o \in Ops : mem.ops[o].answeredBy # 0 => mem.ops[o].answeredBy = o
    /\ \A o \in SentOps :
          LET fl == InFlight(mem.ops[o].sock)
          IN \A i \in 1..Len(fl) :
                fl[i].type \notin {"auth", "auth_ok"} => fl[i].req = o
    /\ IsSorted(mem.settled)

(* Two operations, the second issued while the first was still being       *)
(* processed, both settled by a backend response.                          *)
C1_Witness ==
    /\ mem.ops[2].waited
    /\ mem.ops[1].phase = "resolved" /\ mem.ops[1].answeredBy = 1
    /\ mem.ops[2].phase = "resolved" /\ mem.ops[2].answeredBy = 2
    /\ mem.ops[1].kind # mem.ops[2].kind

(* C2: Pending Operation Slot. At most one request is sent and unsettled,  *)
(* it is the one whose resolver pair is installed, and an installed pair   *)
(* always belongs to a sent, unsettled request.                            *)
C2_SinglePendingSlot ==
    /\ Cardinality(SentOps) <= 1
    /\ \A o \in SentOps : mem.pendingResolver = o /\ mem.pendingRejecter = o
    /\ mem.pendingResolver # 0 => mem.pendingResolver \in SentOps
    /\ mem.pendingRejecter # 0 => mem.pendingRejecter \in SentOps

(* A request is out while another call waits in the queue.                 *)
C2_Witness ==
    /\ mem.ops[1].phase = "sent"
    /\ mem.pendingResolver = 1
    /\ mem.queue = <<2>>

(* C9: handshake. No insert or search message is on a socket that has not  *)
(* received auth_ok; once an error message, an error event or a close      *)
(* reached a socket before auth_ok, its connect promise is no longer       *)
(* pending and no operation still waits for it.                            *)
C9_Handshake ==
    /\ \A s \in Socks : \A i \in 1..Len(mem.toServer[s]) :
          mem.toServer[s][i].type \in {"insert", "search"} => mem.authOk[s]
    /\ \A s \in Socks :
          mem.preAuthFault[s] =>
             /\ mem.connectPromise[s] # "pending"
             /\ \A o \in Ops : ~(mem.ops[o].phase = "connecting" /\ mem.ops[o].sock = s)
    /\ \A o \in Ops : mem.ops[o].phase = "connecting" =>
             mem.connectPromise[mem.ops[o].sock] = "pending"

(* An authentication was rejected on the current socket and the operation  *)
(* that asked for the connection failed with it, while a later operation   *)
(* sent its request on a socket that was authenticated.                    *)
C9_Witness ==
    /\ mem.ops[1].phase = "rejected" /\ mem.ops[1].result = "Auth Failure"
    /\ mem.ops[2].phase = "sent"
    /\ mem.authOk[mem.ops[2].sock]

(* C10: the helpers never reject. Every failed operation makes saveMemory  *)
(* resolve with an offline id carrying a timestamp and getAllMemories /    *)
(* searchMemories resolve with the empty list, after an error log; no      *)
(* settled operation leaves its helper pending or throwing.                *)
C10_HelpersNeverReject ==
    \A o \in Ops :
       LET op == mem.ops[o]
       IN /\ op.helper[1] # "throws"
          /\ op.phase \in {"resolved", "rejected"} => op.helper # <<"pending">>
          /\ op.phase = "rejected" =>
                /\ op.errLog
                /\ op.kind = "insert" => op.helper[1] = "offline-id-" /\ op.helper[2] \in Stamps
                /\ op.kind \in {"fetchAll", "search"} => op.helper = <<"list", <<>> >>

(* A read failed by a rejected authentication, then a save failed by a     *)
(* socket that closed under its request.                                   *)
C10_Witness ==
    /\ mem.ops[1].kind \in {"fetchAll", "search"}
    /\ mem.ops[1].phase = "rejected" /\ mem.ops[1].result = "Auth Failure"
    /\ mem.ops[2].kind = "insert"
    /\ mem.ops[2].phase = "rejected" /\ mem.ops[2].result = "HK-DB Connection Closed"

(* C11: a response that arrives while an operation is pending rejects the  *)
(* operation when its type is error and resolves it when its type is       *)
(* anything else, and the operation's resolver pair is no longer installed *)
(* afterwards.                                                             *)
C11_ResponseSettles ==
    \A o \in Ops :
       LET op == mem.ops[o]
       IN op.via # "" =>
             /\ op.via = "error" => op.phase = "rejected"
             /\ op.via # "error" => op.phase = "resolved"
             /\ mem.pendingResolver # o
             /\ mem.pendingRejecter # o

(* C11, amended: an error response rejects the pending operation, the      *)
(* response type the operation expects (inserted for an insert,            *)
(* search_results for a fetch) resolves it, any other type rejects it, and *)
(* in every case the operation's resolver pair is no longer installed.     *)
C11_ErrorRejectsAndSlotCleared ==
    \A o \in Ops :
       LET op == mem.ops[o]
       IN op.via # "" =>
             /\ op.phase \in {"resolved", "rejected"}
             /\ op.via = "error" => op.phase = "rejected"
             /\ op.phase = "resolved" <=>
                    op.via = (IF op.kind = "insert" THEN "inserted" ELSE "search_results")
             /\ mem.pendingResolver # o
             /\ mem.pendingRejecter # o

(* An insert answered with search results is rejected, and the fetch after *)
(* it is resolved by its own search results.                               *)
C11_Witness ==
    /\ mem.ops[1].kind = "insert" /\ mem.ops[1].via = "search_results"
    /\ mem.ops[1].phase = "rejected" /\ mem.ops[1].result = "Unexpected response"
    /\ mem.ops[2].kind = "fetchAll" /\ mem.ops[2].via = "search_results"
    /\ mem.ops[2].phase = "resolved"

(***************************************************************************)
(* Claims about the Session Orchestrator.                                  *)
(***************************************************************************)

(* C3: at most one augmentation, a processUserContext call whose           *)
(* completion handler has not run yet, is in flight at any time.           *)
C3_SingleAugmentation == Cardinality(sess.augs) <= 1

(* Two chunks scheduled one after the other in the same output context     *)
(* with no interruption handled in between.                                *)
Consecutive(i) ==
    /\ i \in 2..Len(sess.chunks)
    /\ sess.chunks[i].epoch = sess.chunks[i - 1].epoch
    /\ sess.chunks[i].ctx = sess.chunks[i - 1].ctx

(* C4: gapless playback. With no interruption in between, chunk i starts   *)
(* at the later of the end of chunk i-1 and the playback clock at the time *)
(* it is scheduled, and the intervals [start, start + dur) of two such     *)
(* chunks do not overlap.                                                  *)
C4_GaplessPlayback ==
    \A i \in 1..Len(sess.chunks) :
        Consecutive(i) =>
            /\ sess.chunks[i].start =
                   Max(sess.chunks[i - 1].start + sess.chunks[i - 1].dur, sess.chunks[i].at)
            /\ sess.chunks[i].start >= sess.chunks[i - 1].start + sess.chunks[i - 1].dur

(* Both cases happen: a chunk queued right behind its predecessor, and,    *)
(* in another run, one that arrives after the predecessor has ended.       *)
C4_Witness ==
    /\ Consecutive(2)
    /\ sess.chunks[2].at > sess.chunks[1].start + sess.chunks[1].dur
    /\ sess.chunks[2].start = sess.chunks[2].at

C4_WitnessBackToBack ==
    /\ Consecutive(2)
    /\ sess.chunks[2].at < sess.chunks[1].start + sess.chunks[1].dur
    /\ sess.chunks[2].start = sess.chunks[1].start + sess.chunks[1].dur

(* Chunk i is the first one scheduled after the latest interruption.       *)
FirstAfterInterruption(i) ==
    /\ i \in 1..Len(sess.chunks)
    /\ sess.chunks[i].epoch > 0
    /\ \A j \in 1..(i - 1) : sess.chunks[j].epoch < sess.chunks[i].epoch

(* C5: interruption reset. Right after a message with an interruption has  *)
(* been handled, the Active Playback Set holds nothing scheduled before    *)
(* the interruption, and if the message scheduled no chunk itself the set  *)
(* is empty and the cursor is zero; the first chunk scheduled after an     *)
(* interruption starts at the clock's time at scheduling.                  *)
C5_InterruptionReset ==
    /\ sess.justInterrupted =>
          /\ \A c \in sess.audioSourcesRef : sess.chunks[c].epoch = sess.epoch
          /\ (\A c \in 1..Len(sess.chunks) : sess.chunks[c].epoch < sess.epoch) =>
                 /\ sess.audioSourcesRef = {}
                 /\ sess.nextStartTimeRef = 0
    /\ \A i \in 1..Len(sess.chunks) :
          FirstAfterInterruption(i) => sess.chunks[i].start = sess.chunks[i].at

(* A chunk is cut off by an interruption while the cursor is ahead of the  *)
(* clock, and the next chunk starts at the clock.                          *)
C5_Witness ==
    /\ FirstAfterInterruption(2)
    /\ sess.chunks[2].ctx = sess.chunks[1].ctx
    /\ sess.chunks[2].at < sess.chunks[1].start + sess.chunks[1].dur
    /\ sess.chunks[2].start = sess.chunks[2].at
    /\ 1 \in sess.stopped

(* C6: teardown completeness. Right after disconnect() the capture stream  *)
(* is released, both audio contexts are closed and nulled, the Active      *)
(* Playback Set is empty, the session handle is null, and both transcript  *)
(* buffers are empty.                                                      *)
C6_TeardownComplete ==
    sess.justDisconnected =>
        /\ sess.streamRef = 0
        /\ sess.liveStreams = {}
        /\ sess.inputContextRef = 0
        /\ sess.outputContextRef = 0
        /\ sess.openCtx = {}
        /\ sess.audioSourcesRef = {}
        /\ sess.sessionPromiseRef = 0
        /\ sess.inputTranscriptRef = <<>>
        /\ sess.outputTranscriptRef = <<>>

(* C7: messages are processed strictly in arrival order: no handler has an *)
(* effect after the handler of a later message of the same session had     *)
(* one.                                                                    *)
C7_ArrivalOrder == ~sess.outOfOrder

(* C8: a completion that runs after the session has moved on sends nothing *)
(* into a session and leaves the in-flight guard as it was.                *)
C8_LateCompletionIgnored ==
    (sess.lastDone.augEra # 0 /\ sess.lastDone.augEra # sess.lastDone.era) =>
        /\ sess.lastDone.sentTo = 0
        /\ sess.lastDone.guardAfter = sess.lastDone.guardBefore

(* The last step logged this message.                                      *)
Logged(message) ==
    \E i \in 1..Len(sess.stepLogs) : sess.stepLogs[i].message = message

(* C12: when microphone acquisition fails after the remote channel opened, *)
(* the session is torn down: it ends in DISCONNECTED, not CONNECTED, with  *)
(* the session handle, the stream reference and both contexts released.    *)
C12_MicFailureTearsDown ==
    Logged("Microphone access denied") =>
        /\ sess.status = "DISCONNECTED"
        /\ sess.sessionPromiseRef = 0
        /\ sess.streamRef = 0
        /\ sess.inputContextRef = 0
        /\ sess.outputContextRef = 0
        /\ sess.justDisconnected

(* The microphone of the live session was refused while its channel is     *)
(* open.                                                                   *)
C12_Witness ==
    /\ Logged("Microphone access denied")
    /\ \E g \in Gens : sess.chan[g] = "open" /\ sess.openPhase[g] = "done"
                        /\ sess.nConnects = g
    /\ sess.status = "DISCONNECTED"

(* C13: a connect request that fails (missing API key, an exception during *)
(* setup, or the remote connect call failing later) brings the session     *)
(* back to DISCONNECTED and never leaves it in CONNECTING.                 *)
C13_FailedConnectBackToDisconnected ==
    /\ Logged("API Key missing.") => sess.status = "DISCONNECTED"
    /\ Logged("Initialization Failure") => sess.status = "DISCONNECTED"
    /\ \A g \in Gens :
          (sess.chan[g] = "failed" /\ sess.sessionPromiseRef = g) =>
              sess.status # "CONNECTING"

(* C14: from CONNECTED, a remote channel-error leads to DISCONNECTED, as   *)
(* an explicit disconnect and a remote close do.                           *)
C14_ErrorLeadsToDisconnected ==
    (sess.status = "CONNECTED" /\ Logged("Protocol Error")) ~> (sess.status = "DISCONNECTED")

(* C15: the capture callback never queues frames: while the session handle *)
(* is absent or its connection has not resolved, no frame waits to be      *)
(* sent.                                                                   *)
C15_NoFrameWaits ==
    \A g \in Gens : \A i \in 1..Len(sess.held[g]) : sess.held[g][i].kind # "media"

(* C16: searchMemories with an empty or whitespace-only query and no       *)
(* search tags returns the empty list, and no fetch-all request is sent to *)
(* the backend for it.                                                     *)
C16_VacuousSearchSendsNothing ==
    \A o \in Ops :
       LET op == mem.ops[o]
       IN (op.kind = "search" /\ Vacuous(op.query)) =>
             /\ op.phase \in {"resolved", "rejected"} => op.helper = <<"list", <<>> >>
             /\ op.phase # "sent"
             /\ op.answeredBy = 0
             /\ \A s \in Socks : \A i \in 1..Len(mem.toServer[s]) :
                   mem.toServer[s][i].req # o

(* The matching rule of searchMemories as the specification words it: the  *)
(* query, ignoring case and surrounding blanks, occurs in the content, the *)
(* category or a tag, or a search tag occurs in a tag.                     *)
Occurs(part, whole) ==
    \E i \in 1..Len(whole) : \E j \in (i - 1)..Len(whole) :
        ToLowerCase(SubSeq(whole, i, j)) = ToLowerCase(part)

RecordMatches(m, query) ==
    LET q == Trim(query.text)
    IN \/ /\ q # <<>>
          /\ \/ Occurs(q, m.content)
             \/ Occurs(q, m.category)
             \/ \E t \in 1..Len(m.tags) : Occurs(q, m.tags[t])
       \/ \E st \in 1..Len(query.tags) : \E t \in 1..Len(m.tags) :
             \/ query.tags[st] = <<>>
             \/ Occurs(query.tags[st], m.tags[t])

Matching == {i \in 1..Len(pure.all) : RecordMatches(pure.all[i], pure.query)}

(* C17: search ranking and cap. For a non-vacuous query the result holds   *)
(* min(5, k) of the k matching records, each once, in descending order of  *)
(* creation time, and no matching record left out is newer than one that   *)
(* was returned.                                                           *)
C17_SearchRankingAndCap ==
    (pure.fn = "search" /\ pure.out # <<"none">> /\ ~Vacuous(pure.query)) =>
        LET r == pure.out[2]
            k == Cardinality(Matching)
            ids == {r[i].id : i \in 1..Len(r)}
        IN /\ Len(r) = (IF k < 5 THEN k ELSE 5)
           /\ Cardinality(ids) = Len(r)
           /\ \A i \in 1..Len(r) : r[i].id \in Matching /\ r[i] = pure.all[r[i].id]
           /\ \A i \in 1..(Len(r) - 1) : r[i].created_ms >= r[i + 1].created_ms
           /\ \A j \in Matching \ ids : \A i \in 1..Len(r) :
                 pure.all[j].created_ms <= r[i].created_ms

(* Six records match, stored oldest first, and five are left out or        *)
(* reordered: the result is the five newest.                               *)
C17_Witness ==
    /\ pure.fn = "search" /\ pure.out # <<"none">>
    /\ Cardinality(Matching) = 6
    /\ Len(pure.out[2]) = 5
    /\ pure.all[1].created_ms < pure.all[2].created_ms
    /\ pure.out[2][1] = pure.all[6]
    /\ \E i \in Matching : pure.all[i].content # pure.all[1].content

(* ---- claims about the recording sub-state ---- *)

(* The augmentations started by the step.                                  *)
StartedNow == {a \in sess'.augs : a.id > sess.nAugs}

(* C18: a recording that starts with a start-phrase, goes over any number  *)
(* of turns and ends with a stop-phrase gives the Context Augmentation     *)
(* Engine one utterance, once: the text after the start-phrase, the turns  *)
(* in between and the text before the stop-phrase; while the recording     *)
(* lasts the engine receives nothing.                                      *)
C18_RecordingAccumulation ==
    [][/\ (sess.isRecording /\ sess'.isRecording) => StartedNow = {}
       /\ (sess.isRecording /\ ~sess'.isRecording) =>
              \E a \in StartedNow :
                  /\ StartedNow = {a}
                  /\ a.path = "recording"
                  /\ a.text = BeforePhrase(sess'.dictated, StopPhrase)
       /\ ~sess.isRecording => \A a \in StartedNow : a.path # "recording"]_vars

C18_Witness ==
    /\ ~sess.isRecording
    /\ \E a \in sess.augs : a.path = "recording" /\ a.text = <<"a", "b", "c">>

(* C19: while RECORDING no tool call of the remote channel starts a memory *)
(* insert or search, and no audio chunk fires the context trigger.         *)
C19_RecordingSuppresses ==
    [][sess.isRecording =>
          /\ Len(sess'.handlers) <= Len(sess.handlers)
          /\ \A i \in 1..Len(sess'.stepLogs) :
                 sess'.stepLogs[i].message # "MANUAL ARCHIVE"
          /\ \A a \in StartedNow : a.path # "audio"]_vars

C19_Witness ==
    /\ sess.isRecording
    /\ sess.suppressed = {"toolCall", "trigger"}

(* ---- claims about downsampleBuffer ---- *)

(* Half-up rounding of the fraction p / q.                                 *)
Round(p, q) == (2 * p + q) \div (2 * q)

(* C20: downsampling a buffer of length L from R_in to R_out returns       *)
(* round(L * R_out / R_in) samples when R_out < R_in, fails with an error  *)
(* and no result when R_out > R_in, and returns the input itself when the  *)
(* rates are equal.                                                        *)
C20_ResampleLength ==
    pure.fn = "downsample" /\ pure.out.kind # "none" =>
        /\ pure.outputRate < pure.inputRate =>
               /\ pure.out.kind = "returns"
               /\ Len(pure.out.value)
                     = Round(Len(pure.buffer) * pure.outputRate, pure.inputRate)
        /\ pure.outputRate > pure.inputRate => pure.out.kind = "throws"
        /\ pure.outputRate = pure.inputRate =>
               pure.out.kind = "returns" /\ pure.out.value = pure.buffer

(* ---- claims about the PCM conversions ---- *)

Abs(n) == IF n < 0 THEN -n ELSE n

(* C21: a sample in [-1, 1], encoded to 16 bits and decoded, comes back    *)
(* within 1/32768 of itself.  With s = n / SampleDen and the decoded       *)
(* sample k / DecodeScale, that is |n - k * (SampleDen / DecodeScale)|     *)
(* <= SampleDen / DecodeScale.                                             *)
C21_PcmRoundTrip ==
    (/\ pure.fn = "pcm"
     /\ pure.out # <<"none">>
     /\ pure.sample \in (-SampleDen)..SampleDen) =>
        Abs(pure.sample - pure.out[3] * (SampleDen \div DecodeScale))
            <= SampleDen \div DecodeScale

(* ---- claims about the augmentation triggers ---- *)

(* This step handled the server content of a message.                      *)
Handled == sess.lastMsg # <<>>

Msg == sess.lastMsg[1]

Was == sess.before[1]

(* The user buffer once the message's transcription was appended.          *)
Buffer == Was.input \o Msg.inputText

(* The augmentations started while the message was handled.                *)
StartedIn == {a \in sess.augs : a.id > Was.nAugs}

(* The message meets the condition of the context trigger.                 *)
EarlyCommit == Msg.audio # 0 /\ Trim(Buffer) # <<>> /\ ~Was.guard

Sent(kind) == {i \in 1..Len(sess.stepSends) : sess.stepSends[i].kind = kind}

(* C22: a message with an audio chunk, a non-blank user buffer and no      *)
(* augmentation in flight extracts the buffer in the same step: the buffer *)
(* is left empty, the guard is set and the engine is called once, with the *)
(* extracted text; no character of user text goes to the engine twice.     *)
C22_EarlyCommit ==
    /\ ~sess.twice
    /\ (Handled /\ EarlyCommit) =>
          /\ \E a \in StartedIn :
                StartedIn = {a} /\ a.path = "audio" /\ a.text = Buffer
          /\ sess.inputTranscriptRef = <<>>
          /\ sess.isAnalyzingRef

(* The trigger took text of an earlier message, and the same message       *)
(* completed the turn.                                                     *)
C22_Witness ==
    /\ Handled
    /\ EarlyCommit
    /\ Was.input # <<>>
    /\ Msg.inputText # <<>>
    /\ Msg.turnComplete

(* C23: a turn-complete event calls the engine exactly when the user       *)
(* buffer is still non-blank at that point, and then with the whole        *)
(* buffer; when the buffer is blank, or the context trigger of the same    *)
(* message already took it, the event starts no augmentation, sends no     *)
(* filler and leaves the guard as it is.                                   *)
StillNonBlank == Trim(Buffer) # <<>> /\ ~EarlyCommit

C23_TurnCompleteFallback ==
    (Handled /\ Msg.turnComplete) =>
        /\ (\E a \in StartedIn : a.path = "turn") <=> StillNonBlank
        /\ StillNonBlank =>
              /\ \E a \in StartedIn : StartedIn = {a} /\ a.text = Buffer
              /\ sess.inputTranscriptRef = <<>>
              /\ sess.isAnalyzingRef
        /\ ~StillNonBlank =>
              /\ \A a \in StartedIn : EarlyCommit /\ StartedIn = {a}
              /\ Cardinality(Sent("thinking")) <= Cardinality(StartedIn)
              /\ sess.isAnalyzingRef = (Was.guard \/ EarlyCommit)

(* The context trigger of the same message had taken the buffer.           *)
C23_Witness ==
    /\ Handled
    /\ Msg.turnComplete
    /\ EarlyCommit
    /\ Cardinality(Sent("thinking")) = 1

(* The fallback fired while an augmentation was in flight.                 *)
C23_WitnessFallback ==
    /\ Handled
    /\ Msg.turnComplete
    /\ StillNonBlank
    /\ Was.guard

(* C24 as claimed: the utterance of a context trigger that the guard       *)
(* stopped is discarded, so none of its characters ever reaches the        *)
(* engine, alone or within a later utterance.                              *)
C24_DroppedIsDiscarded ==
    \A i \in 1..Len(sess.dropped.idx) : sess.dropped.idx[i] \notin sess.delivered

IsPrefix(p, q) == Len(p) <= Len(q) /\ SubSeq(q, 1, Len(p)) = p

(* C24 as amended: a context trigger that arrives while the guard is set   *)
(* is dropped silently (no augmentation, no filler, guard unchanged), and  *)
(* its utterance stays in the user buffer: the next extraction, by the     *)
(* turn-complete fallback or a later trigger, passes it to the engine at   *)
(* the head of its utterance.                                              *)
C24_DroppedIsKept ==
    /\ (Handled /\ Msg.audio # 0 /\ Trim(Buffer) # <<>> /\ Was.guard
           /\ ~Msg.turnComplete) =>
          /\ StartedIn = {}
          /\ Sent("thinking") = {}
          /\ sess.inputTranscriptRef = Buffer
          /\ sess.isAnalyzingRef = Was.guard
    /\ sess.dropped.idx # <<>> =>
          \/ /\ IsPrefix(sess.dropped.idx, sess.inputIdx)
             /\ \A i \in 1..Len(sess.dropped.idx) :
                    sess.dropped.idx[i] \notin sess.delivered
          \/ /\ \A i \in 1..Len(sess.dropped.idx) :
                    sess.dropped.idx[i] \in sess.delivered
             /\ sess.nAugs > sess.dropped.n
             /\ \A a \in sess.augs :
                    a.id = sess.dropped.n + 1 => IsPrefix(sess.dropped.idx, a.idx)

(* Within one session a trigger was dropped, the augmentation in flight    *)
(* returned and released the guard, and a later context trigger, the only  *)
(* augmentation in flight now, took the dropped utterance merged with the  *)
(* user text that arrived after it.                                        *)
C24_Witness ==
    /\ sess.dropped.idx # <<>>
    /\ sess.nConnects = 1
    /\ sess.status = "CONNECTED"
    /\ \E b \in sess.augs :
          /\ sess.augs = {b}
          /\ b.id = sess.dropped.n + 1
          /\ b.path = "audio"
          /\ IsPrefix(sess.dropped.idx, b.idx)
          /\ Len(b.idx) > Len(sess.dropped.idx)

(* The turn-complete fallback, which does not test the guard, passed a     *)
(* dropped utterance to the engine while the earlier augmentation was      *)
(* still in flight.                                                        *)
C24_WitnessFallback ==
    /\ sess.dropped.idx # <<>>
    /\ \E a, b \in sess.augs :
          /\ a.id = sess.dropped.n
          /\ b.id = sess.dropped.n + 1
          /\ b.path = "turn"
          /\ b.idx = sess.dropped.idx

(* The session the handle names is open.                                   *)
Live(s) == s.sessionPromiseRef # 0 /\ s.chan[s.sessionPromiseRef] = "open"

(* C25: an augmentation started while the session is live sends one        *)
(* thinking filler in the step that starts it, and when its result arrives *)
(* with the session still live, one follow-up: it restates the utterance   *)
(* and carries the injected context if the engine returned one, the        *)
(* no-data marker otherwise.                                               *)
C25_SideEffectOrder ==
    [][/\ (StartedNow # {} /\ Live(sess)) =>
              /\ Cardinality(StartedNow) = 1
              /\ Cardinality({i \in 1..Len(sess'.stepSends) :
                                 sess'.stepSends[i].kind = "thinking"}) = 1
       /\ \A a \in sess.augs \ sess'.augs :
              (a.era = sess.era /\ Live(sess)) =>
                  sess'.stepSends =
                      <<[to |-> sess.sessionPromiseRef,
                         kind |-> IF \E i \in 1..Len(sess'.stepLogs) :
                                        sess'.stepLogs[i].message = "CONTEXT UPDATE INJECTED"
                                  THEN "finalInjected" ELSE "finalNoData",
                         text |-> a.text]>>]_vars

(* The result of an augmentation of the live session arrived with context. *)
C25_Witness ==
    /\ sess.lastDone.augEra # 0
    /\ sess.lastDone.augEra = sess.lastDone.era
    /\ Live(sess)
    /\ Len(sess.stepSends) = 1
    /\ sess.stepSends[1].kind = "finalInjected"
    /\ sess.stepSends[1].text # <<>>

(* C26: while an augmentation of the current session has not returned, no  *)
(* remote-channel event starts a further augmentation.                     *)
C26_StalledBlocks ==
    [][(\E a \in sess.augs : a.era = sess.era /\ a \in sess'.augs) =>
           StartedNow = {}]_vars

(* The records the step logged as the agent's speech.                      *)
AgentLogs ==
    {i \in 1..Len(sess.stepLogs) :
        sess.stepLogs[i].sender = "HK-47" /\ sess.stepLogs[i].type = "info"}

(* C27: a message with the interruption flag discards the agent transcript *)
(* gathered so far without logging it (only the message's own agent text   *)
(* can be logged or stay buffered), and the interruption leaves the user   *)
(* buffer and the guard as they were: unless the same message extracts the *)
(* buffer, the buffer is the old one plus the message's own transcription  *)
(* and the guard is the old guard.                                         *)
C27_InterruptionDiscards ==
    (Handled /\ Msg.interrupted) =>
        /\ \A i \in AgentLogs : sess.stepLogs[i].message = Msg.outputText
        /\ sess.outputTranscriptRef \in {<<>>, Msg.outputText}
        /\ StartedIn = {} =>
               /\ sess.inputTranscriptRef = Buffer
               /\ sess.isAnalyzingRef = Was.guard

(* An interruption with turn-complete met a buffered agent transcript and  *)
(* a buffered user transcript: nothing was logged, the user buffer stands. *)
C27_Witness ==
    /\ Handled
    /\ Msg.interrupted
    /\ Msg.turnComplete
    /\ sess.discarded # <<>>
    /\ Was.input # <<>>
    /\ sess.inputTranscriptRef = Was.input
    /\ sess.stepLogs = <<>>

(* C28: membership of the Active Playback Set. Only a handle just created  *)
(* enters the set, so none enters twice; a handle leaves it by its own     *)
(* ended event, by an interruption or by teardown, and having left it never *)
(* comes back; the ended event of a handle removes that handle and nothing *)
(* else, so when the handle was already removed by an interruption the set *)
(* stays as it is, with the handles scheduled since.                       *)
C28_PlaybackSetMembership ==
    [][/\ \A c \in sess'.audioSourcesRef \ sess.audioSourcesRef :
              c > Len(sess.chunks)
       /\ \A c \in sess.audioSourcesRef \ sess'.audioSourcesRef :
              \/ sess.playing \ sess'.playing = {c}
              \/ sess'.epoch > sess.epoch
              \/ sess'.justDisconnected
       /\ \A c \in sess.playing \ sess'.playing :
              sess'.audioSourcesRef = sess.audioSourcesRef \ {c}]_vars

(* The ended event of a handle stopped by an interruption has fired, and   *)
(* a handle scheduled after the interruption is still in the set.          *)
C28_Witness ==
    /\ Len(sess.chunks) >= 2
    /\ 1 \in sess.stopped
    /\ 1 \notin sess.playing
    /\ sess.chunks[2].epoch > sess.chunks[1].epoch
    /\ 2 \in sess.audioSourcesRef

(* The step handled a message whose audio data failed to decode.           *)
FaultStep ==
    /\ sess'.lastMsg # <<>>
    /\ sess'.lastMsg[1].audio < 0
    /\ sess.outputContextRef # 0

(* C29: an audio chunk that fails to decode is dropped inside the playback *)
(* path. The step leaves the connection state and the scheduled chunks as  *)
(* they were, and the Active Playback Set and the cursor too (emptied and  *)
(* zero if the same message carries an interruption); the next chunk       *)
(* scheduled after the fault is gapless against the chunk before it.       *)
C29_DecodeFaultDropped ==
    /\ [][FaultStep =>
              /\ sess'.status = sess.status
              /\ sess'.chunks = sess.chunks
              /\ sess'.playing = sess.playing
              /\ sess'.audioSourcesRef =
                     IF sess'.lastMsg[1].interrupted THEN {} ELSE sess.audioSourcesRef
              /\ sess'.nextStartTimeRef =
                     IF sess'.lastMsg[1].interrupted THEN 0 ELSE sess.nextStartTimeRef]_vars
    /\ [](\A i \in 1..Len(sess.chunks) :
              (Consecutive(i) /\ sess.faultAt = i) =>
                  sess.chunks[i].start =
                      Max(sess.chunks[i - 1].start + sess.chunks[i - 1].dur,
                          sess.chunks[i].at))

(* A chunk was dropped between chunk 1 and chunk 2 while chunk 1 was still *)
(* playing; the session is connected and chunk 2 starts where 1 ends.      *)
C29_Witness ==
    /\ Consecutive(2)
    /\ sess.faultAt = 2
    /\ sess.status = "CONNECTED"
    /\ sess.chunks[2].at < sess.chunks[1].start + sess.chunks[1].dur
    /\ sess.chunks[2].start = sess.chunks[1].start + sess.chunks[1].dur
    /\ sess.audioSourcesRef = {1, 2}

(* The operations the step dispatched: their task ran connect().           *)
Dispatched ==
    {o \in Ops : /\ mem.ops[o].phase \in {NoOp.phase, "queued"}
                 /\ mem'.ops[o].phase \in {"connecting", "sent"}}

(* The memory connection is open and authenticated.                       *)
Healthy ==
    /\ mem.ws # 0
    /\ mem.readyState[mem.ws] = "OPEN"
    /\ mem.isAuthenticated

(* C30: connect-if-needed on a healthy connection. When the current socket *)
(* is open and authenticated and no socket fails or closes in the step, a  *)
(* dispatched operation opens no transport and sends no auth message: the  *)
(* sockets and the current socket stay as they are and the only message    *)
(* sent is the operation's own request, on the current socket.             *)
C30_ConnectNoopWhenHealthy ==
    [][\A o \in Dispatched :
          (/\ Healthy
           /\ \A s \in Socks : mem.readyState[s] \notin {"CLOSED", "NONE"} =>
                                  mem'.readyState[s] \notin {"CLOSED", "NONE"}) =>
              /\ mem'.ws = mem.ws
              /\ mem'.readyState = mem.readyState
              /\ mem'.isAuthenticated
              /\ mem'.ops[o].phase = "sent"
              /\ mem'.ops[o].sock = mem.ws
              /\ mem'.toServer[mem.ws] = Append(mem.toServer[mem.ws], Request(mem', o))
              /\ \A s \in Socks \ {mem.ws} : mem'.toServer[s] = mem.toServer[s]]_vars

(* A second operation was dispatched on the authenticated socket that the  *)
(* first one opened: one auth message was ever sent, one socket ever used. *)
C30_Witness ==
    /\ mem.ops[1].phase = "resolved"
    /\ mem.ops[2].phase = "sent"
    /\ ~mem.ops[2].waited
    /\ mem.ops[2].sock = mem.ws
    /\ Healthy
    /\ \A s \in Socks \ {mem.ws} : mem.readyState[s] = "NONE"
    /\ mem.toServer[mem.ws] = <<Request(mem, 2)>>

(* ---- claims about the Context Augmentation Engine ---- *)

(* C31: processUserContext never rejects. Whatever the classifier gives    *)
(* (an intent, text that is not JSON, a failed call) and whatever the      *)
(* memory helper does, the call resolves with an {injection, log} pair;    *)
(* blank input resolves with both null and the classifier is not called;   *)
(* a memory operation is done only for SAVE with saveData (an insert) and  *)
(* for RETRIEVE with searchData (a search).                                *)
C31_ContextNeverRejects ==
    (pure.fn = "context" /\ pure.out # <<>>) =>
        LET r == pure.out[1]
        IN /\ r.settled = "resolved"
           /\ r.injection \in {"null", "saved", "saveError", "data", "notFound", "readError"}
           /\ r.log \in {"null", "intent", "intentSave", "intentRetrieve", "error"}
           /\ Trim(pure.text) = <<>> =>
                  r.injection = "null" /\ r.log = "null" /\ ~r.classified
           /\ (Trim(pure.text) # <<>> /\ pure.reply.kind \in {"failure", "malformed"}) =>
                  r.injection = "null" /\ r.log = "error"
           /\ r.memOp = "insert" =>
                  /\ pure.reply.kind = "json"
                  /\ pure.reply.intent = "SAVE" /\ pure.reply.saveData # "absent"
           /\ r.memOp = "search" =>
                  /\ pure.reply.kind = "json"
                  /\ pure.reply.intent = "RETRIEVE" /\ pure.reply.searchData # "absent"

(* The classifier's text was not JSON and the call resolved.               *)
C31_Witness ==
    /\ pure.fn = "context" /\ pure.out # <<>>
    /\ pure.reply.kind = "malformed"
    /\ Trim(pure.text) # <<>>
    /\ pure.out[1].settled = "resolved"
    /\ pure.out[1].log = "error"

(* ---- claims about tool calls ---- *)

MemoryTools == {"commitToMemoryCore", "retrieveFromMemoryCore"}

(* The first call from place i on that names a memory tool, 0 if none.     *)
NextMemoryCall(calls, i) ==
    LET js == {j \in i..Len(calls) : calls[j] \in MemoryTools}
    IN IF js = {} THEN 0 ELSE CHOOSE j \in js : \A k \in js : j <= k

(* The step resumed the oldest suspended handler.                          *)
Resumed ==
    /\ Len(sess.handlers) > 0
    /\ \/ sess'.handlers = <<>>
       \/ Head(sess'.handlers) # Head(sess.handlers)

ToolResponses(s) ==
    {i \in 1..Len(s.stepSends) : s.stepSends[i].kind = "toolResponse"}

(* C32: every call of a memory tool is answered once, in order. A message  *)
(* suspends at its first memory call and sends nothing for it before the   *)
(* helper returns; when the helper returns and the session that delivered  *)
(* the call is still the live one, exactly one tool response is sent, to   *)
(* that session, for that call; the handler then waits at the next memory  *)
(* call of the message, if any; no suspended call is dropped. The only     *)
(* other tool responses sent are those released by a connect promise they  *)
(* were waiting on: answers to calls of a session that was replaced.       *)
C32_ToolCallsAnswered ==
    [][/\ Resumed =>
              LET h == Head(sess.handlers)
                  nx == NextMemoryCall(h.msg.toolCalls, h.i + 1)
              IN /\ h.msg.toolCalls[h.i] \in MemoryTools
                 /\ (Live(sess) /\ sess.sessionPromiseRef = h.g) =>
                        /\ Cardinality(ToolResponses(sess')) = 1
                        /\ sess'.stepSends[1] =
                               [to |-> h.g, kind |-> "toolResponse",
                                text |-> <<h.msg.toolCalls[h.i]>>]
                 /\ sess'.handlers =
                        IF nx = 0 THEN Tail(sess.handlers)
                        ELSE Append(Tail(sess.handlers), [h EXCEPT !.i = nx])
       /\ ~Resumed =>
              /\ \A i \in ToolResponses(sess') :
                     LET m == sess'.stepSends[i]
                     IN /\ sess.chan[m.to] = "connecting"
                        /\ \E k \in 1..Len(sess.held[m.to]) :
                               sess.held[m.to][k] = [kind |-> m.kind, text |-> m.text]
              /\ \/ sess'.handlers = sess.handlers
                 \/ /\ sess'.handlers # <<>>
                    /\ LET h == sess'.handlers[Len(sess'.handlers)]
                       IN /\ sess'.handlers = Append(sess.handlers, h)
                          /\ h.i = NextMemoryCall(h.msg.toolCalls, 1)]_vars

(* The second call of a message with three was answered and the handler    *)
(* waits at the third.                                                     *)
C32_Witness ==
    /\ Live(sess)
    /\ \E k \in 1..Len(sess.handlers) :
          /\ sess.handlers[k].i = 3
          /\ sess.handlers[k].g = sess.sessionPromiseRef
          /\ sess.stepSends = <<[to |-> sess.handlers[k].g, kind |-> "toolResponse",
                                 text |-> <<sess.handlers[k].msg.toolCalls[2]>>]>>

(* ---- claims about the emotion annotation ---- *)

(* The agent buffer once the message's transcription was appended.         *)
AgentBuffer ==
    (IF Msg.interrupted THEN <<>> ELSE Was.output) \o Msg.outputText

(* C33: after each agent transcript delta the display state is the one     *)
(* mapped from the leading emotion word of the agent buffer, and neutral   *)
(* when the word is not recognised or the buffer has no leading pattern.   *)
C33_EmotionAnnotation ==
    (Handled /\ Msg.outputText # <<>>) =>
        sess.currentEmotion =
            IF EmotionMatch(AgentBuffer) # <<>>
            THEN EmotionOf(EmotionMatch(AgentBuffer))
            ELSE "neutral"

(* ---- claims about superseded memory connections ---- *)

(* The step delivered the close of a socket that connect() had replaced.   *)
SupersededClosed ==
    \E s \in Socks :
        /\ s # mem.ws
        /\ mem.readyState[s] = "CLOSING"
        /\ mem'.readyState[s] \in {"CLOSED", "NONE"}

(* C34: the late close of a superseded socket leaves the authenticated     *)
(* flag of the current connection as it is and rejects no operation that   *)
(* is pending on the current connection.                                   *)
C34_SupersededCloseHarmless ==
    [][SupersededClosed =>
          /\ mem'.isAuthenticated = mem.isAuthenticated
          /\ \A o \in Ops :
                (mem.ops[o].phase = "sent" /\ mem.ops[o].sock = mem.ws) =>
                    mem'.ops[o].phase = "sent"]_vars

(* ---- claims about the memory operation queue ---- *)

(* The operations the worker is awaiting.                                  *)
Awaited == {o \in Ops : mem.ops[o].phase \in {"connecting", "sent"}}

(* The operations a step rejected.                                         *)
RejectedNow ==
    {o \in Ops : mem.ops[o].phase # "rejected" /\ mem'.ops[o].phase = "rejected"}

(* C35: the queue makes progress. A non-empty queue has the worker         *)
(* running; a running worker awaits exactly one operation, older than all  *)
(* queued ones, on a socket whose events can still settle it; operations   *)
(* are settled in enqueue order; and the step that rejects an operation    *)
(* dispatches the operation queued right behind it.                        *)
C35_QueueProgress ==
    /\ [](/\ mem.queue # <<>> => mem.isProcessing
          /\ mem.isProcessing =>
                /\ Cardinality(Awaited) = 1
                /\ \A o \in Awaited : \A i \in 1..Len(mem.queue) : o < mem.queue[i]
          /\ ~mem.isProcessing => Awaited = {}
          /\ \A o \in Awaited :
                /\ mem.ops[o].sock # 0
                /\ mem.readyState[mem.ops[o].sock] \in {"CONNECTING", "OPEN"}
                /\ mem.ops[o].phase = "connecting" =>
                       mem.connectPromise[mem.ops[o].sock] = "pending"
                /\ mem.ops[o].phase = "sent" => mem.pendingRejecter = o
          /\ IsSorted(mem.queue)
          /\ IsSorted(mem.settled)
          /\ \A i \in 1..Len(mem.settled) : \A o \in Awaited : mem.settled[i] < o)
    /\ [][\A o \in RejectedNow :
             mem.queue # <<>> =>
                 /\ mem'.ops[Head(mem.queue)].phase \in {"connecting", "sent"}
                 /\ mem'.queue = Tail(mem.queue)]_vars

(* The first operation was rejected while a second one waited, and the     *)
(* second one was then dispatched and settled by the backend's response.   *)
C35_Witness ==
    /\ mem.ops[1].phase = "rejected"
    /\ mem.ops[2].waited
    /\ mem.ops[2].phase = "resolved"
    /\ mem.settled = <<1, 2>>
    /\ ~mem.isProcessing

(* ---- claims about the release of the guard ---- *)

(* C36: the guard is released. When the completion handler of an           *)
(* augmentation runs, whether the engine returned context, nothing or an   *)
(* error, and whether the augmentation was started by the audio trigger or *)
(* by the turn-complete fallback, the guard is false afterwards.           *)
C36_GuardReleased ==
    [][\A a \in sess.augs \ sess'.augs :
          /\ a.path \in {"audio", "turn"}
          /\ ~sess'.isAnalyzingRef]_vars

(* Within one session a first augmentation has completed and a later       *)
(* utterance has started the second one through the guarded audio trigger. *)
C36_Witness ==
    /\ sess.nConnects = 1
    /\ sess.status = "CONNECTED"
    /\ sess.nAugs = 2
    /\ \E a \in sess.augs :
          /\ sess.augs = {a}
          /\ a.id = 2
          /\ a.path = "audio"

(* ---- claims about the cursor across sessions ---- *)

(* C37: the cursor does not carry over between sessions. The first chunk   *)
(* scheduled on an output context starts at that context's clock at the    *)
(* time of scheduling, whatever the previous session left in the cursor.   *)
C37_CursorNotCarriedOver ==
    \A i \in 1..Len(sess.chunks) :
        (\A j \in 1..(i - 1) : sess.chunks[j].ctx # sess.chunks[i].ctx)
            => sess.chunks[i].start = sess.chunks[i].at

(* ---- claims about the session's lifecycle under late callbacks ---- *)

(* C38: no capture device is held while DISCONNECTED. In every state with  *)
(* status DISCONNECTED the stream reference is null and no stream obtained *)
(* by the hook is still live.                                              *)
C38_NoStreamWhileDisconnected ==
    sess.status = "DISCONNECTED" =>
        /\ sess.streamRef = 0
        /\ sess.liveStreams = {}

(* C39: status CONNECTED implies a live session: the session handle and    *)
(* both audio contexts are non-null whenever the status is CONNECTED, so   *)
(* an open acknowledgment arriving after a disconnect during CONNECTING    *)
(* does not set the status to CONNECTED.                                   *)
C39_ConnectedImpliesLive ==
    sess.status = "CONNECTED" =>
        /\ sess.sessionPromiseRef # 0
        /\ sess.inputContextRef # 0
        /\ sess.outputContextRef # 0

(* C40: microphone start does not depend on the memory store. Once the    *)
(* channel of a session has opened, the open handler eventually asks for   *)
(* the microphone, also when the memory backend never answers the initial  *)
(* fetch-all.                                                              *)
C40_MicIndependentOfMemory ==
    \A g \in Gens :
        (sess.chan[g] = "open") ~> (sess.openPhase[g] \in {"getUserMedia", "done"})

====
